---- MODULE Spec2Model ----
(***************************************************************************)
(* A model of the UEFI flash-image parser of tinytoy-sec/UefiVarMonitor:   *)
(* the GUID codec (package guid), the flash descriptor and region layer,   *)
(* the ME partition table and the firmware volume header (package uefi).   *)
(*                                                                         *)
(* A GUID is a sequence of 16 integers 0..255, indexed from 1; the larger  *)
(* buffers of package uefi are kept sparse.  Each component has its own    *)
(* specification (SpecGuid, SpecFV, ...) over the shared variables; the    *)
(* variables of the other components stay at their initial value.          *)
(***************************************************************************)
EXTENDS Integers, Sequences, FiniteSets, TLC

VARIABLES
    guidMode,   \* "guid": String then Parse; "text": Parse then String
    guidSrc,    \* the input: 16 bytes (mode "guid") or a text (mode "text")
    guidVal,    \* the GUID in hand (16 bytes), <<>> when there is none
    guidText,   \* the text in hand (character codes), <<>> when there is none
    guidErr,    \* Parse returned an error
    guidStep,   \* number of conversions applied so far
    Attributes, \* the process-wide ROM attributes: [set, ErasePolarity]
    fvData,     \* the bytes given to the last NewFirmwareVolume call
    fvPrev,     \* Attributes before the last NewFirmwareVolume call
    fvRes,      \* what the last NewFirmwareVolume call returned: [st, fv]
    biosData,   \* the bytes of the BIOS region under test
    biosRes,    \* what the last call on biosData returned: [op, ...]
    meData,     \* the bytes of the ME region under test
    meRes,      \* what NewMERegion returned on meData: [op, ...]
    imgData,    \* the bytes of the flash image under test
    imgRes,     \* what the last call on imgData returned: [op, ...]
    insBuf,     \* fv.buf of the volume InsertFile works on (byte sequence)
    insRes,     \* what the last InsertFile call was given and returned
    fileObj,    \* the File under test: its header fields and buffer
    fileRes,    \* what the last call on fileObj was given and returned
    sectData,   \* the bytes given to NewSection
    sectRes,    \* what NewSection returned on sectData
    ReadOnly,   \* the package flag ReadOnly
    heap,       \* the backing arrays: a function from array names to bytes
    nodes,      \* the nodes of the last parse: [kind, arr, from, to]
    visitNode,  \* the node ApplyChildren is called on: [kind, children]
    visitRes    \* what the last ApplyChildren call visited and returned

guidVars == <<guidMode, guidSrc, guidVal, guidText, guidErr, guidStep>>
fvVars == <<fvData, fvPrev, fvRes>>
biosVars == <<biosData, biosRes>>
meVars == <<meData, meRes>>
imgVars == <<imgData, imgRes>>
insVars == <<insBuf, insRes>>
fileVars == <<fileObj, fileRes>>
sectVars == <<sectData, sectRes>>
aliasVars == <<ReadOnly, heap, nodes>>
visitVars == <<visitNode, visitRes>>
parseVars == <<guidVars, fvVars, biosVars, meVars, imgVars>>
editVars == <<insVars, fileVars, sectVars, aliasVars, visitVars>>
vars == <<guidVars, Attributes, fvVars, biosVars, meVars, imgVars, editVars>>

(***************************************************************************)
(* Generic helpers                                                         *)
(***************************************************************************)
\* s[lo:hi] of Go (offsets from 0, hi exclusive) on a sequence
Slice(s, lo, hi) == [i \in 1..(hi - lo) |-> s[lo + i]]

RECURSIVE Concat(_)
Concat(ss) == IF ss = <<>> THEN <<>> ELSE Head(ss) \o Concat(Tail(ss))

RECURSIVE Repeat(_, _)
Repeat(b, n) == IF n <= 0 THEN <<>> ELSE <<b>> \o Repeat(b, n - 1)

(***************************************************************************)
(* package guid                                                            *)
(***************************************************************************)
Size == 16

\* "01234567-89AB-CDEF-0123-456789ABCDEF" as character codes
UExample ==
    << 48, 49, 50, 51, 52, 53, 54, 55, 45,
       56, 57, 65, 66, 45,
       67, 68, 69, 70, 45,
       48, 49, 50, 51, 45,
       52, 53, 54, 55, 56, 57, 65, 66, 67, 68, 69, 70 >>

fields == <<4, 2, 2, 1, 1, 1, 1, 1, 1, 1, 1>>

Hyphen == 45

\* reverse(b): b[other], b[i] = b[i], b[other] for i < len(b)/2
reverse(b) == [i \in 1..Len(b) |-> b[Len(b) - i + 1]]

\* the loop "for _, fieldlen := range fields { reverse(u[i:i+fieldlen]); i += fieldlen }"
RECURSIVE reverseFieldsFrom(_, _, _)
reverseFieldsFrom(u, fs, i) ==
    IF fs = <<>> THEN <<>>
    ELSE reverse(Slice(u, i, i + Head(fs)))
            \o reverseFieldsFrom(u, Tail(fs), i + Head(fs))

reverseFieldsBad(u) == reverseFieldsFrom(u, <<4, 2, 2, 8>>, 0)

reverseFields(u) == reverseFieldsFrom(u, fields, 0)

\* strings.Replace(s, "-", "", -1)
RECURSIVE stripHyphens(_)
stripHyphens(s) ==
    IF s = <<>> THEN <<>>
    ELSE IF Head(s) = Hyphen THEN stripHyphens(Tail(s))
    ELSE <<Head(s)>> \o stripHyphens(Tail(s))

\* encoding/hex: the value of one hex digit, -1 for any other character
fromHexChar(c) ==
    IF c >= 48 /\ c <= 57 THEN c - 48
    ELSE IF c >= 97 /\ c <= 102 THEN c - 97 + 10
    ELSE IF c >= 65 /\ c <= 70 THEN c - 65 + 10
    ELSE -1

\* hex.DecodeString: an error for an odd length or a non-hex character
hexDecodeOk(s) ==
    /\ Len(s) % 2 = 0
    /\ \A i \in 1..Len(s) : fromHexChar(s[i]) >= 0

hexDecode(s) ==
    [i \in 1..(Len(s) \div 2) |-> fromHexChar(s[2 * i - 1]) * 16 + fromHexChar(s[2 * i])]

\* Parse(s): [ok |-> FALSE] for an error, else the GUID
Parse(s) ==
    LET stripped == stripHyphens(s)
    IN  IF ~hexDecodeOk(stripped) THEN [ok |-> FALSE, guid |-> <<>>]
        ELSE IF Len(hexDecode(stripped)) # Size THEN [ok |-> FALSE, guid |-> <<>>]
        ELSE [ok |-> TRUE, guid |-> reverseFields(hexDecode(stripped))]

\* %02X of one byte
upperHexDigit(d) == IF d < 10 THEN 48 + d ELSE 65 + d - 10
fmt02X(b) == <<upperHexDigit(b \div 16), upperHexDigit(b % 16)>>

\* strFormat: "%02X%02X%02X%02X-%02X%02X-%02X%02X-%02X%02X-%02X%02X%02X%02X%02X%02X"
strFormat(b) ==
    Concat([i \in 1..Size |->
        IF i \in {5, 7, 9, 11} THEN <<Hyphen>> \o fmt02X(b[i]) ELSE fmt02X(b[i])])

\* a String that prints the storage bytes in their native order
StringNoReverse(u) == strFormat(u)

\* GUID.String()
String(u) == strFormat(reverseFields(u))

(***************************************************************************)
(* package uefi: byte buffers.  A buffer is [len, m]: len bytes, of which  *)
(* m maps the offsets (from 0) of the non-zero ones to their value.        *)
(***************************************************************************)
NoBytes == [o \in {} |-> 0]

ZeroBuf(n) == [len |-> n, m |-> NoBytes]

ByteAt(b, o) == IF o \in DOMAIN b.m THEN b.m[o] ELSE 0

\* b[lo:hi]
SubBuf(b, lo, hi) ==
    LET d == {o \in DOMAIN b.m : o >= lo /\ o < hi}
    IN  [len |-> hi - lo, m |-> [o \in {x - lo : x \in d} |-> b.m[o + lo]]]

\* b with the bytes s written at offset at (what falls beyond len is cut off)
PutBytes(b, at, s) ==
    LET w  == {o \in at..(at + Len(s) - 1) : o < b.len}
        nz == {o \in w : s[o - at + 1] # 0}
        d  == (DOMAIN b.m \ w) \cup nz
    IN  [len |-> b.len, m |-> [o \in d |-> IF o \in w THEN s[o - at + 1] ELSE b.m[o]]]

\* bytes.Equal(b[o:o+len(s)], s)
HasAt(b, o, s) == \A k \in 1..Len(s) : ByteAt(b, o + k - 1) = s[k]

\* the bytes b[o:o+n] as a sequence
BytesAt(b, o, n) == [k \in 1..n |-> ByteAt(b, o + k - 1)]

MinOf(S) == CHOOSE x \in S : \A y \in S : x <= y

\* encoding/binary, little endian.  A field whose value does not fit 31 bits
\* is "big": it is only ever compared with lengths, which do.  U32 is the
\* value of the low 31 bits.
U16(b, o) == ByteAt(b, o) + 256 * ByteAt(b, o + 1)
U32Big(b, o) == ByteAt(b, o + 3) >= 128
U32(b, o) == U16(b, o) + 65536 * (U16(b, o + 2) % 32768)
U64Big(b, o) == U32Big(b, o) \/ \E k \in 4..7 : ByteAt(b, o + k) # 0
U64(b, o) == U32(b, o)

\* n as k little-endian bytes
RECURSIVE LE(_, _)
LE(n, k) == IF k = 0 THEN <<>> ELSE <<n % 256>> \o LE(n \div 256, k - 1)

\* Align8, Align4: round up to a multiple of 8, of 4
Align8(x) == ((x + 7) \div 8) * 8
Align4(x) == ((x + 3) \div 4) * 4

\* Read3Size: the 3-byte little-endian size
Read3Size(t) == t[1] + 256 * t[2] + 65536 * t[3]

(***************************************************************************)
(* The erase polarity global                                               *)
(***************************************************************************)
\* SetErasePolarity(ep): the first caller wins, a later caller with another
\* value gets ErasePolarityConflict and changes nothing
SetErasePolarity(attr, ep) ==
    IF attr.set /\ attr.ErasePolarity # ep
    THEN [err |-> TRUE, attr |-> attr]
    ELSE [err |-> FALSE, attr |-> [set |-> TRUE, ErasePolarity |-> ep]]

(***************************************************************************)
(* Sections, files and firmware volumes.  The three parsers call each      *)
(* other (a section may hold a volume, a volume holds files, a file holds  *)
(* sections) and pass the ROM attributes along.  Each returns a record     *)
(* with st = "ok", "err" (an error is returned), "panic" (a slice out of   *)
(* range) or "hang" (a loop that never ends), and attr, the ROM attributes *)
(* after the call.  cx is the codec of this parse: [ok, out], what Decode  *)
(* answers, and disabled, the DisableDecompression flag.                   *)
(***************************************************************************)
FirmwareVolumeFixedHeaderSize == 56
FirmwareVolumeMinSize == FirmwareVolumeFixedHeaderSize + 8
FirmwareVolumeExtHeaderMinSize == 20
FileHeaderMinLength == 24
FileHeaderExtMinLength == 32

FFS2 == Parse(<<56, 99, 56, 99, 101, 53, 55, 56, 45, 56, 97, 51, 100, 45, 52, 102,
                49, 99, 45, 57, 57, 51, 53, 45, 56, 57, 54, 49, 56, 53, 99, 51, 50,
                100, 100, 51>>).guid
FFS3 == Parse(<<53, 52, 55, 51, 99, 48, 55, 97, 45, 51, 100, 99, 98, 45, 52, 100,
                99, 97, 45, 98, 100, 54, 102, 45, 49, 101, 57, 54, 56, 57, 101, 55,
                51, 52, 57, 97>>).guid
NVAR == Parse(<<99, 101, 102, 53, 98, 57, 97, 51, 45, 52, 55, 54, 100, 45, 52, 57,
                55, 102, 45, 57, 102, 100, 99, 45, 101, 57, 56, 49, 52, 51, 101, 48,
                52, 50, 50, 99>>).guid
LZMAGUID == Parse(<<69, 69, 52, 69, 53, 56, 57, 56, 45, 51, 57, 49, 52, 45, 52, 50,
                    53, 57, 45, 57, 68, 54, 69, 45, 68, 67, 55, 66, 68, 55, 57, 52,
                    48, 51, 67, 70>>).guid

supportedFVs == {FFS2, FFS3}

\* the file types whose sections are parsed: FreeForm .. SMMCoreStandalone
\* without Raw (1) and PEIM (6)
SupportedFiles == {2, 3, 4, 5, 7, 8, 9, 10, 11, 12, 13, 14, 15}

\* the section types NewSection knows
KnownSectionTypes == {0, 1, 2, 3, 16, 17, 18, 19, 20, 21, 22, 23, 24, 25, 27, 28}

\* compression.CompressorFromGUID(g) != nil; LZMA stands for the four codecs
HasCompressor(g) == g = LZMAGUID

AllFF(b, o, n) == \A k \in 0..(n - 1) : ByteAt(b, o + k) = 255

\* a GetErasePolarity that tests attribute bit 12
GetErasePolarityBit12(attrs) == IF (attrs \div 4096) % 2 # 0 THEN 255 ELSE 0

\* FirmwareVolume.GetErasePolarity
GetErasePolarity(attrs) == IF (attrs \div 2048) % 2 # 0 THEN 255 ELSE 0

RECURSIVE NewSection(_, _, _)
RECURSIVE NewFile(_, _, _)
RECURSIVE NewFirmwareVolume(_, _, _, _)
RECURSIVE encapLoop(_, _, _, _, _)
RECURSIVE sectionLoop(_, _, _, _, _, _)
RECURSIVE fileLoop(_, _, _, _, _, _)
RECURSIVE blockMap(_, _, _)

\* a header that clamps the size of every section to the buffer
sectionHeaderClampsAll(buf) ==
    [Type |-> ByteAt(buf, 3), isExt |-> FALSE, headerSize |-> 4,
     ExtendedSize |-> IF Read3Size(BytesAt(buf, 0, 3)) > buf.len THEN buf.len
                      ELSE Read3Size(BytesAt(buf, 0, 3))]

\* the header of a section as NewSection reads it: the type, whether the
\* extended size is used, the header size and ExtendedSize
sectionHeader(buf) ==
    LET type == ByteAt(buf, 3)
        known == type \in KnownSectionTypes
        isExt == known /\ AllFF(buf, 0, 3)
        size3 == Read3Size(BytesAt(buf, 0, 3))
    IN  [Type |-> type, isExt |-> isExt, headerSize |-> IF isExt THEN 8 ELSE 4,
         ExtendedSize |-> IF isExt THEN U32(buf, 4)
                          ELSE IF ~known /\ size3 > buf.len THEN buf.len
                          ELSE size3]

\* what NewSection returns: no section, or the section of header h
sectionFail(st, a) ==
    [st |-> st, attr |-> a, ExtendedSize |-> 0, Type |-> 0, headerSize |-> 0,
     Encapsulated |-> 0]

sectionDone(h, a, n) ==
    [st |-> "ok", attr |-> a, ExtendedSize |-> h.ExtendedSize, Type |-> h.Type,
     headerSize |-> h.headerSize, Encapsulated |-> n]

\* one round of the loop over the decoded bytes of a GUID-defined section,
\* s being the section parsed at offset
encapStep(encapBuf, offset, cx, n, s) ==
    IF s.st # "ok" THEN [st |-> s.st, attr |-> s.attr, n |-> n]
    ELSE IF Align4(offset + s.ExtendedSize) = offset
         THEN [st |-> "hang", attr |-> s.attr, n |-> n]
    ELSE encapLoop(encapBuf, Align4(offset + s.ExtendedSize), s.attr, cx, n + 1)

encapLoop(encapBuf, offset, attr, cx, n) ==
    IF ~(offset < encapBuf.len) THEN [st |-> "ok", attr |-> attr, n |-> n]
    ELSE encapStep(encapBuf, offset, cx, n,
                   NewSection(SubBuf(encapBuf, offset, encapBuf.len), attr, cx))

\* NewSection once the encapsulated sections (e) or the volume (v) are parsed
afterEncap(h, e) ==
    IF e.st # "ok" THEN sectionFail(e.st, e.attr) ELSE sectionDone(h, e.attr, e.n)

afterVolume(h, v) ==
    IF v.st # "ok" THEN sectionFail(v.st, v.attr) ELSE sectionDone(h, v.attr, 1)

\* NewSection after the header is read
parseSection(buf, attr, cx, h) ==
    IF buf.len < 4 THEN sectionFail("err", attr)
    ELSE IF h.isExt /\ buf.len < 8 THEN sectionFail("err", attr)
    ELSE IF h.isExt /\ AllFF(buf, 4, 4) THEN sectionFail("err", attr)
    ELSE IF h.isExt /\ U32Big(buf, 4) THEN sectionFail("err", attr)
    ELSE IF h.ExtendedSize > buf.len THEN sectionFail("err", attr)
    ELSE IF h.Type = 2 THEN
        \* GUID-defined: {GUID, DataOffset, Attributes} follows the header
        IF h.headerSize + 20 > buf.len THEN sectionFail("err", attr)
        ELSE IF ~(/\ U16(buf, h.headerSize + 18) % 2 # 0
                  /\ ~cx.disabled
                  /\ HasCompressor(BytesAt(buf, h.headerSize, 16)))
             THEN sectionDone(h, attr, 0)
        ELSE IF U16(buf, h.headerSize + 16) > buf.len THEN sectionFail("panic", attr)
        ELSE IF ~cx.ok THEN sectionDone(h, attr, 0)
        ELSE afterEncap(h, encapLoop(cx.out, 0, attr, cx, 0))
    ELSE IF h.Type = 21 THEN           \* user interface
        IF h.ExtendedSize <= h.headerSize THEN sectionFail("err", attr)
        ELSE sectionDone(h, attr, 0)
    ELSE IF h.Type = 20 THEN           \* version
        IF h.ExtendedSize <= h.headerSize + 2 THEN sectionFail("err", attr)
        ELSE sectionDone(h, attr, 0)
    ELSE IF h.Type = 23 THEN           \* firmware volume image
        IF h.ExtendedSize <= h.headerSize THEN sectionFail("err", attr)
        ELSE afterVolume(h, NewFirmwareVolume(SubBuf(buf, h.headerSize, h.ExtendedSize),
                                              0, TRUE, [attr |-> attr, cx |-> cx]))
    ELSE IF h.Type \in {19, 27, 28} THEN   \* DepEx: a parse error is only logged
        IF h.ExtendedSize <= h.headerSize THEN sectionFail("err", attr)
        ELSE sectionDone(h, attr, 0)
    ELSE sectionDone(h, attr, 0)

NewSection(buf, attr, cx) == parseSection(buf, attr, cx, sectionHeader(buf))

\* one round of the loop over the sections of a file, s being the section
\* parsed at offset
sectionStep(fbuf, offset, ext, cx, n, s) ==
    IF s.st # "ok" THEN [st |-> s.st, attr |-> s.attr, n |-> n]
    ELSE IF s.ExtendedSize = 0 THEN [st |-> "err", attr |-> s.attr, n |-> n]
    ELSE sectionLoop(fbuf, Align4(offset + s.ExtendedSize), ext, s.attr, cx, n + 1)

sectionLoop(fbuf, offset, ext, attr, cx, n) ==
    IF ~(offset < ext) THEN [st |-> "ok", attr |-> attr, n |-> n]
    ELSE sectionStep(fbuf, offset, ext, cx, n,
                     NewSection(SubBuf(fbuf, offset, fbuf.len), attr, cx))

\* the header of a file as NewFile reads it
fileHeader(buf) ==
    LET large == AllFF(buf, 20, 3)
    IN  [large |-> large, Type |-> ByteAt(buf, 18), Attributes |-> ByteAt(buf, 19),
         ExtendedSize |-> IF large THEN U64(buf, 24) ELSE Read3Size(BytesAt(buf, 20, 3)),
         DataOffset |-> IF large THEN FileHeaderExtMinLength ELSE FileHeaderMinLength]

\* what NewFile returns; st = "free" is the nil file of free space
fileResult(h, st, a, ext, off, n) ==
    [st |-> st, attr |-> a, ExtendedSize |-> ext, DataOffset |-> off,
     Type |-> h.Type, Attributes |-> h.Attributes, Sections |-> n]

\* NewFile once the sections (l) are parsed
afterSections(h, l) ==
    IF l.st # "ok" THEN fileResult(h, l.st, l.attr, 0, 0, 0)
    ELSE fileResult(h, "ok", l.attr, h.ExtendedSize, h.DataOffset, l.n)

\* NewFile after the header is read
parseFile(buf, attr, cx, h) ==
    IF buf.len < FileHeaderMinLength THEN fileResult(h, "err", attr, 0, 0, 0)
    ELSE IF h.large /\ buf.len < FileHeaderExtMinLength
         THEN fileResult(h, "err", attr, 0, 0, 0)
    ELSE IF h.large /\ AllFF(buf, 24, 8) THEN fileResult(h, "free", attr, 0, 0, 0)
    ELSE IF h.large /\ U64Big(buf, 24) THEN fileResult(h, "err", attr, 0, 0, 0)
    ELSE IF h.ExtendedSize > buf.len THEN fileResult(h, "err", attr, 0, 0, 0)
    ELSE IF h.Type = 1 /\ BytesAt(buf, 0, 16) = NVAR /\ h.DataOffset >= h.ExtendedSize
         THEN fileResult(h, "err", attr, 0, 0, 0)
    ELSE IF h.Type \notin SupportedFiles
         THEN fileResult(h, "ok", attr, h.ExtendedSize, h.DataOffset, 0)
    ELSE afterSections(h, sectionLoop(SubBuf(buf, 0, h.ExtendedSize), h.DataOffset,
                                      h.ExtendedSize, attr, cx, 0))

NewFile(buf, attr, cx) == parseFile(buf, attr, cx, fileHeader(buf))

\* the block map: the number of blocks read before the terminating block, or
\* -1 when the data ends first
blockMap(data, at, n) ==
    IF at + 8 > data.len THEN 0 - 1
    ELSE IF \A k \in 0..7 : ByteAt(data, at + k) = 0 THEN n
    ELSE blockMap(data, at + 8, n + 1)

\* what the loop over the files of a volume returns
filesResult(st, a, fs, free) == [st |-> st, attr |-> a, Files |-> fs, FreeSpace |-> free]

\* a loop body that takes the nil file of free space for an error
fileStepFreeIsError(data, length, o, cx, files, f) ==
    IF f.st # "ok" THEN filesResult("err", f.attr, files, 0)
    ELSE IF f.ExtendedSize = 0 THEN filesResult("err", f.attr, files, 0)
    ELSE fileLoop(data, length, o + f.ExtendedSize, f.attr, cx,
                  Append(files, [offset |-> o, ExtendedSize |-> f.ExtendedSize,
                                 DataOffset |-> f.DataOffset, Type |-> f.Type,
                                 Sections |-> f.Sections]))

\* one round of the loop over the files, f being the file parsed at offset o
fileStep(data, length, o, cx, files, f) ==
    IF f.st = "free" THEN filesResult("ok", f.attr, files, length - o)
    ELSE IF f.st # "ok" THEN filesResult(f.st, f.attr, files, 0)
    ELSE IF f.ExtendedSize = 0 THEN filesResult("err", f.attr, files, 0)
    ELSE fileLoop(data, length, o + f.ExtendedSize, f.attr, cx,
                  Append(files, [offset |-> o, ExtendedSize |-> f.ExtendedSize,
                                 DataOffset |-> f.DataOffset, Type |-> f.Type,
                                 Sections |-> f.Sections]))

\* the loop over the files of a volume.  lh = Length - FileHeaderMinLength is
\* unsigned: for Length < 24 it wraps to more than any offset.
fileLoop(data, length, offset, attr, cx, files) ==
    IF ~(IF length >= FileHeaderMinLength
         THEN offset < length - FileHeaderMinLength ELSE TRUE)
    THEN filesResult("ok", attr, files, 0)
    ELSE IF data.len <= Align8(offset) THEN filesResult("err", attr, files, 0)
    ELSE fileStep(data, length, Align8(offset), cx, files,
                  NewFile(SubBuf(data, Align8(offset), data.len), attr, cx))

\* the start of data: HeaderLen, or the end of the extended header
DataOffsetOf(length, headerLen, extHeaderOffset, extHeaderSize) ==
    Align8(IF /\ extHeaderOffset # 0
              /\ length >= FirmwareVolumeExtHeaderMinSize
              /\ extHeaderOffset < length - FirmwareVolumeExtHeaderMinSize
           THEN extHeaderOffset + extHeaderSize ELSE headerLen)

\* "if err := SetErasePolarity(fv.GetErasePolarity()); err != nil"
polarityStep(attr, ep) == SetErasePolarity(attr, ep)

NoFV == [FileSystemGUID |-> <<>>, Length |-> 0, Attributes |-> 0, HeaderLen |-> 0,
         ExtHeaderOffset |-> 0, ExtHeaderSize |-> 0, Blocks |-> 0, DataOffset |-> 0,
         FVOffset |-> 0, Resizable |-> FALSE, parsed |-> FALSE, Files |-> <<>>,
         FreeSpace |-> 0, buf |-> ZeroBuf(0)]

\* the volume as its fixed header, block map and extended header give it
volumeHeader(data, fvOffset, resizable) ==
    LET length == U64(data, 32)
        headerLen == U16(data, 48)
        extHeaderOffset == U16(data, 52)
        extHeaderSize ==
            IF /\ extHeaderOffset # 0
               /\ length >= FirmwareVolumeExtHeaderMinSize
               /\ extHeaderOffset < length - FirmwareVolumeExtHeaderMinSize
            THEN U32(data, extHeaderOffset + 16) ELSE 0
    IN  [FileSystemGUID |-> BytesAt(data, 16, 16), Length |-> length,
         Attributes |-> U32(data, 44), HeaderLen |-> headerLen,
         ExtHeaderOffset |-> extHeaderOffset, ExtHeaderSize |-> extHeaderSize,
         Blocks |-> blockMap(data, FirmwareVolumeFixedHeaderSize, 0),
         DataOffset |-> DataOffsetOf(length, headerLen, extHeaderOffset, extHeaderSize),
         FVOffset |-> fvOffset, Resizable |-> resizable, parsed |-> FALSE,
         Files |-> <<>>, FreeSpace |-> 0, buf |-> SubBuf(data, 0, length)]

\* what NewFirmwareVolume returns
volumeResult(st, a, fv) == [st |-> st, attr |-> a, fv |-> fv]

\* NewFirmwareVolume once the files (l) are parsed
afterFiles(fv, l) ==
    IF l.st # "ok" THEN volumeResult(l.st, l.attr, NoFV)
    ELSE volumeResult("ok", l.attr,
                      [fv EXCEPT !.parsed = TRUE, !.Files = l.Files,
                                 !.FreeSpace = l.FreeSpace])

\* NewFirmwareVolume from the answer p of SetErasePolarity on
afterPolarity(data, cx, fv, p) ==
    IF p.err THEN volumeResult("err", p.attr, NoFV)
    ELSE IF U64Big(data, 32) \/ fv.Length > data.len
         THEN volumeResult("err", p.attr, NoFV)
    ELSE IF fv.FileSystemGUID \notin supportedFVs THEN volumeResult("ok", p.attr, fv)
    ELSE afterFiles(fv, fileLoop(data, fv.Length, fv.DataOffset, p.attr, cx, <<>>))

\* NewFirmwareVolume after the header and the block map are read
parseVolume(data, env, fv) ==
    IF data.len < FirmwareVolumeMinSize THEN volumeResult("err", env.attr, NoFV)
    ELSE IF fv.Blocks < 0 THEN volumeResult("err", env.attr, NoFV)
    ELSE afterPolarity(data, env.cx, fv,
                       polarityStep(env.attr, GetErasePolarity(fv.Attributes)))

\* NewFirmwareVolume(data, fvOffset, resizable); env is [attr, cx]
NewFirmwareVolume(data, fvOffset, resizable, env) ==
    parseVolume(data, env, volumeHeader(data, fvOffset, resizable))

(***************************************************************************)
(* Firmware volume search and the BIOS region                              *)
(***************************************************************************)
fvSig == <<95, 70, 86, 72>>      \* "_FVH"

\* FindFirmwareVolumeOffset: the loop "for offset = 32; offset+4 < len(data);
\* offset += 8" returns at its first hit, the lowest offset it visits that
\* carries the signature (a zero byte is no part of the signature, so only the
\* offsets of non-zero bytes can hit)
FindFirmwareVolumeOffset(data) ==
    IF data.len < 32 THEN 0 - 1
    ELSE LET hits == {o \in DOMAIN data.m :
                        /\ o >= 32 /\ (o - 32) % 8 = 0
                        /\ o + 4 < data.len
                        /\ HasAt(data, o, fvSig)}
         IN  IF hits = {} THEN 0 - 1 ELSE MinOf(hits) - 40

RECURSIVE biosLoop(_, _, _, _, _)

\* NewBIOSPadding(b, at)
NewBIOSPadding(b, at) == [kind |-> "BIOSPadding", Offset |-> at, buf |-> b]

\* what NewBIOSRegion returns
biosResult(st, a, elems) == [st |-> st, attr |-> a, Elements |-> elems]

\* the loop of NewBIOSRegion from the volume v it parsed at offset on
biosStep(buf, absOffset, offset, cx, elems, v) ==
    IF v.st # "ok" THEN biosResult(v.st, v.attr, <<>>)
    ELSE IF v.fv.Length = 0 THEN biosResult("err", v.attr, <<>>)
    ELSE biosLoop(SubBuf(buf, offset + v.fv.Length, buf.len),
                  absOffset + offset + v.fv.Length, v.attr, cx,
                  Append(elems, [kind |-> "FirmwareVolume", Offset |-> v.fv.FVOffset,
                                 buf |-> v.fv.buf]))

\* the loop of NewBIOSRegion from the offset of the next volume on
biosFound(buf, absOffset, attr, cx, elems, offset) ==
    IF offset < 0
    THEN biosResult("ok", attr,
                    IF buf.len # 0 THEN Append(elems, NewBIOSPadding(buf, absOffset))
                    ELSE elems)
    ELSE biosStep(buf, absOffset, offset, cx,
                  IF offset > 0
                  THEN Append(elems, NewBIOSPadding(SubBuf(buf, 0, offset), absOffset))
                  ELSE elems,
                  NewFirmwareVolume(SubBuf(buf, offset, buf.len), absOffset + offset,
                                    FALSE, [attr |-> attr, cx |-> cx]))

biosLoop(buf, absOffset, attr, cx, elems) ==
    biosFound(buf, absOffset, attr, cx, elems, FindFirmwareVolumeOffset(buf))

\* NewBIOSRegion(buf, r, _)
NewBIOSRegion(buf, attr, cx) == biosLoop(buf, 0, attr, cx, <<>>)

(***************************************************************************)
(* The ME flash partition table.  A 64-bit value that may exceed 31 bits   *)
(* is kept as its 8 little-endian bytes.                                   *)
(***************************************************************************)
MEFPTSignature == <<36, 70, 80, 84>>     \* "$FPT"
MEPartitionDescriptorMinLength == 28
MEPartitionTableEntryLength == 32

\* uint64(x) of the 4 bytes of a uint32
Wide(b4) == b4 \o <<0, 0, 0, 0>>
WZero == <<0, 0, 0, 0, 0, 0, 0, 0>>

RECURSIVE wAddFrom(_, _, _, _)
wAddFrom(a, b, i, carry) ==
    IF i > 8 THEN <<>>
    ELSE <<(a[i] + b[i] + carry) % 256>>
            \o wAddFrom(a, b, i + 1, (a[i] + b[i] + carry) \div 256)

\* a + b on uint64
WAdd(a, b) == wAddFrom(a, b, 1, 0)

\* a > b on uint64
WGreater(a, b) ==
    \E i \in 1..8 : a[i] > b[i] /\ \A j \in (i + 1)..8 : a[j] = b[j]

\* MEPartitionEntry.OffsetIsValid
OffsetIsValid(e) == e.Offset # <<0, 0, 0, 0>> /\ e.Offset # <<255, 255, 255, 255>>

\* FindMEDescriptor: bytes.Index of the signature, plus its length; -1 if absent
FindMEDescriptor(buf) ==
    LET hits == {o \in DOMAIN buf.m : o + 4 <= buf.len /\ HasAt(buf, o, MEFPTSignature)}
    IN  IF hits = {} THEN 0 - 1 ELSE MinOf(hits) + 4

NoFPT == [ok |-> FALSE, PartitionCount |-> 0, PartitionMapStart |-> 0, Entries |-> <<>>]

\* NewMEFPT from the offset o that FindMEDescriptor returned on
tableAt(buf, o) ==
    IF o < 0 THEN NoFPT
    ELSE IF buf.len < o + MEPartitionDescriptorMinLength THEN NoFPT
    ELSE IF U32Big(buf, o) THEN NoFPT
    ELSE IF buf.len < o + MEPartitionDescriptorMinLength
                        + MEPartitionTableEntryLength * U32(buf, o)
         THEN NoFPT
    ELSE [ok |-> TRUE, PartitionCount |-> U32(buf, o),
          PartitionMapStart |-> o + MEPartitionDescriptorMinLength,
          Entries |-> [i \in 1..U32(buf, o) |->
              [Offset |-> BytesAt(buf, o + MEPartitionDescriptorMinLength
                                         + MEPartitionTableEntryLength * (i - 1) + 8, 4),
               Length |-> BytesAt(buf, o + MEPartitionDescriptorMinLength
                                         + MEPartitionTableEntryLength * (i - 1) + 12, 4)]]]

\* NewMEFPT
NewMEFPT(buf) == tableAt(buf, FindMEDescriptor(buf))

\* the end of one partition: uint64(p.Offset) + uint64(p.Length)
endOffset32(p) == SubSeq(WAdd(Wide(p.Offset), Wide(p.Length)), 1, 4) \o <<0, 0, 0, 0>>

endOffset(p) == WAdd(Wide(p.Offset), Wide(p.Length))

\* the loop of NewMERegion that computes FreeSpaceOffset
RECURSIVE freeSpaceLoop(_, _, _)
freeSpaceLoop(entries, i, free) ==
    IF i > Len(entries) THEN free
    ELSE IF OffsetIsValid(entries[i]) /\ WGreater(endOffset(entries[i]), free)
         THEN freeSpaceLoop(entries, i + 1, endOffset(entries[i]))
    ELSE freeSpaceLoop(entries, i + 1, free)

\* NewMERegion from the table fp on: one that did not parse is logged and the
\* region is kept
regionOfTable(buf, fp) ==
    [st |-> "ok", FPT |-> fp, buf |-> buf,
     FreeSpaceOffset |-> IF fp.ok THEN freeSpaceLoop(fp.Entries, 1, WZero) ELSE WZero]

\* NewMERegion
NewMERegion(buf) == regionOfTable(buf, NewMEFPT(buf))

(***************************************************************************)
(* The flash descriptor                                                    *)
(***************************************************************************)
FlashSignature == <<90, 165, 240, 15>>
FlashDescriptorLength == 4096
FlashRegionSectionSize == 64
RegionBlockSize == 4096
NumFlashRegions == 15

\* a FindSignature that looks at offset 0 first
FindSignatureICHFirst(buf) ==
    IF buf.len < 20 THEN [off |-> 0 - 1, err |-> "ErrTooShort"]
    ELSE IF HasAt(buf, 0, FlashSignature) THEN [off |-> Len(FlashSignature), err |-> ""]
    ELSE IF HasAt(buf, 16, FlashSignature) THEN [off |-> 20, err |-> ""]
    ELSE [off |-> 0 - 1, err |-> "ErrNotExist"]

\* FindSignature: [off, err]
FindSignature(buf) ==
    IF buf.len < 20 THEN [off |-> 0 - 1, err |-> "ErrTooShort"]
    ELSE IF HasAt(buf, 16, FlashSignature) THEN [off |-> 20, err |-> ""]
    ELSE IF buf.len >= Len(FlashSignature) /\ HasAt(buf, 0, FlashSignature)
         THEN [off |-> Len(FlashSignature), err |-> ""]
    ELSE [off |-> 0 - 1, err |-> "ErrNotExist"]

\* FlashImage.IsPCH on an image, whose buffer has at least 4096 bytes
IsPCH(buf) == HasAt(buf, 16, FlashSignature)

\* the bounds test of the region section
regionOutOfBounds(regionStart, regionEnd, buflen) ==
    regionStart >= buflen \/ regionEnd >= buflen

NoRegions == [i \in 1..NumFlashRegions |-> [Base |-> 0, Limit |-> 0]]

\* what ParseFlashDescriptor leaves in fd, and its error
descriptorFail(e) ==
    [err |-> e, DescriptorMapStart |-> 0, RegionStart |-> 0, MasterStart |-> 0,
     NumberOfRegions |-> 0, FlashRegions |-> NoRegions]

\* ParseFlashDescriptor from the descriptor map at start on; regionStart is
\* RegionBase * 0x10
parseSections(buf, start, regionStart) ==
    IF regionOutOfBounds(regionStart, regionStart + FlashRegionSectionSize, buf.len)
    THEN descriptorFail("bounds")
    ELSE [err |-> "", DescriptorMapStart |-> start, RegionStart |-> regionStart,
          MasterStart |-> ByteAt(buf, start + 4) * 16,
          NumberOfRegions |-> ByteAt(buf, start + 3),
          FlashRegions |-> [i \in 1..NumFlashRegions |->
              [Base |-> U16(buf, regionStart + 4 * i),
               Limit |-> U16(buf, regionStart + 4 * i + 2)]]]

\* ParseFlashDescriptor from the answer sig of FindSignature on
parseAfterSignature(buf, sig) ==
    IF sig.err # "" THEN descriptorFail(sig.err)
    ELSE parseSections(buf, sig.off, ByteAt(buf, sig.off + 2) * 16)

\* FlashDescriptor.ParseFlashDescriptor on fd.buf = buf
ParseFlashDescriptor(buf) ==
    IF buf.len # FlashDescriptorLength THEN descriptorFail("length")
    ELSE parseAfterSignature(buf, FindSignature(buf))

(***************************************************************************)
(* Regions and the flash image                                             *)
(***************************************************************************)
RegionTypeBIOS == 0
RegionTypeME == 1
RegionTypeUnknown == 0 - 1

\* FlashRegion.Valid, BaseOffset, EndOffset
Valid(r) == r.Limit > 0 /\ r.Limit >= r.Base /\ r.Limit # 65535 /\ r.Base # 65535
BaseOffset(r) == r.Base * RegionBlockSize
EndOffset(r) == (r.Limit + 1) * RegionBlockSize

\* a constructor's answer r and the ROM attributes after it
constructed(r, attr) == [st |-> r.st, attr |-> attr]

\* regionConstructors[t](buf, r, t)
constructRegion(t, sub, attr, cx) ==
    IF t = RegionTypeBIOS THEN NewBIOSRegion(sub, attr, cx)
    ELSE IF t = RegionTypeME THEN constructed(NewMERegion(sub), attr)
    ELSE [st |-> "ok", attr |-> attr]

\* what the loop of NewFlashImage over the region section returns
regionsResult(st, a, rs) == [st |-> st, attr |-> a, Regions |-> rs]

RECURSIVE parseRegions(_, _, _, _, _, _, _)

\* the loop from the region c, constructed for entry i (counted from 0), on
regionStep(buf, frs, nr, i, cx, acc, c) ==
    IF c.st # "ok" THEN regionsResult(c.st, c.attr, <<>>)
    ELSE parseRegions(buf, frs, nr, i + 1, c.attr, cx,
             Append(acc, [Type |-> i, FRegion |-> frs[i + 1],
                          buf |-> SubBuf(buf, BaseOffset(frs[i + 1]), EndOffset(frs[i + 1])),
                          from |-> BaseOffset(frs[i + 1]), to |-> EndOffset(frs[i + 1])]))

\* the loop of NewFlashImage over the region section; i counts from 0
parseRegions(buf, frs, nr, i, attr, cx, acc) ==
    IF i >= NumFlashRegions \/ (nr # 0 /\ i >= nr) THEN regionsResult("ok", attr, acc)
    ELSE IF ~Valid(frs[i + 1]) THEN parseRegions(buf, frs, nr, i + 1, attr, cx, acc)
    ELSE IF BaseOffset(frs[i + 1]) >= buf.len
         THEN parseRegions(buf, frs, nr, i + 1, attr, cx, acc)
    ELSE IF EndOffset(frs[i + 1]) > buf.len
         THEN parseRegions(buf, frs, nr, i + 1, attr, cx, acc)
    ELSE regionStep(buf, frs, nr, i, cx, acc,
             constructRegion(i, SubBuf(buf, BaseOffset(frs[i + 1]), EndOffset(frs[i + 1])),
                             attr, cx))

\* sort.Slice(f.Regions, Base <): the orders an unstable sort may leave
sortedByBase(rs) ==
    { [i \in 1..Len(rs) |-> rs[p[i]]] :
        p \in { q \in Permutations(1..Len(rs)) :
                  \A i, j \in 1..Len(rs) :
                      i < j => ~(rs[q[j]].FRegion.Base < rs[q[i]].FRegion.Base) } }

\* the synthetic region of a gap [offset, next)
gapRegion(buf, offset, next) ==
    [Type |-> RegionTypeUnknown,
     FRegion |-> [Base |-> (offset \div RegionBlockSize) % 65536,
                  Limit |-> (((next \div RegionBlockSize) % 65536) + 65535) % 65536],
     buf |-> SubBuf(buf, offset, next), from |-> offset, to |-> next]

\* the overlap test of fillRegionGaps
overlapsNever(nextBase, offset) == FALSE

overlaps(nextBase, offset) == nextBase < offset

\* the loop of fillRegionGaps
RECURSIVE gapLoop(_, _, _, _, _, _)
gapLoop(buf, flashSize, rs, i, offset, acc) ==
    IF i > Len(rs)
    THEN [st |-> "ok",
          Regions |-> IF offset # flashSize
                      THEN Append(acc, gapRegion(buf, offset, flashSize)) ELSE acc]
    ELSE LET nextBase == BaseOffset(rs[i].FRegion)
         IN  IF overlaps(nextBase, offset) THEN [st |-> "err", Regions |-> <<>>]
             ELSE gapLoop(buf, flashSize, rs, i + 1, EndOffset(rs[i].FRegion),
                     IF nextBase > offset
                     THEN Append(Append(acc, gapRegion(buf, offset, nextBase)), rs[i])
                     ELSE Append(acc, rs[i]))

fillRegionGapsFromZero(buf, flashSize, rs) ==
    gapLoop(buf, flashSize, rs, 1, 0, <<>>)

fillRegionGaps(buf, flashSize, rs) ==
    gapLoop(buf, flashSize, rs, 1, FlashDescriptorLength, <<>>)

\* NewFlashImage from the parsed descriptor ifd up to the sort
regionsOfDescriptor(buf, attr, cx, ifd) ==
    IF ifd.err # "" THEN regionsResult("err", attr, <<>>)
    ELSE IF ~Valid(ifd.FlashRegions[RegionTypeBIOS + 1]) THEN regionsResult("err", attr, <<>>)
    ELSE parseRegions(buf, ifd.FlashRegions, ifd.NumberOfRegions, 0, attr, cx, <<>>)

\* NewFlashImage up to the sort: the descriptor and the constructed regions
newFlashImageRegions(buf, attr, cx) ==
    IF buf.len < FlashDescriptorLength THEN regionsResult("err", attr, <<>>)
    ELSE regionsOfDescriptor(buf, attr, cx,
             ParseFlashDescriptor(SubBuf(buf, 0, FlashDescriptorLength)))

(***************************************************************************)
(* Inputs of the GUID codec: GUIDs that take each byte from one of two     *)
(* sample GUIDs (at most MaxAlt bytes from the second), the all-zero and   *)
(* all-ones GUIDs, and texts built the same way from hex pairs.            *)
(***************************************************************************)
MaxAlt == 2

\* the storage bytes of UExample and of the FFS2 file-system GUID
SampleA == << 103, 69, 35, 1, 171, 137, 239, 205, 1, 35, 69, 103, 137, 171, 205, 239 >>
SampleB == << 120, 229, 140, 140, 61, 138, 28, 79, 153, 53, 137, 97, 133, 195, 45, 211 >>

Mixes == { [i \in 1..Size |-> IF i \in S THEN SampleB[i] ELSE SampleA[i]] :
             S \in { T \in SUBSET (1..Size) : Cardinality(T) <= MaxAlt } }

GuidInputs == Mixes \cup { [i \in 1..Size |-> 0], [i \in 1..Size |-> 255] }

\* canonical text of 16 hex pairs, written out independently of String
CanonicalOf(p) ==
    fmt02X(p[1]) \o fmt02X(p[2]) \o fmt02X(p[3]) \o fmt02X(p[4]) \o <<Hyphen>>
    \o fmt02X(p[5]) \o fmt02X(p[6]) \o <<Hyphen>>
    \o fmt02X(p[7]) \o fmt02X(p[8]) \o <<Hyphen>>
    \o fmt02X(p[9]) \o fmt02X(p[10]) \o <<Hyphen>>
    \o fmt02X(p[11]) \o fmt02X(p[12]) \o fmt02X(p[13]) \o fmt02X(p[14])
    \o fmt02X(p[15]) \o fmt02X(p[16])

toLower(t) == [i \in 1..Len(t) |-> IF t[i] >= 65 /\ t[i] <= 70 THEN t[i] + 32 ELSE t[i]]

TextInputs ==
    { CanonicalOf(p) : p \in GuidInputs }
    \cup { UExample,
           toLower(UExample),                 \* lower-case digits
           stripHyphens(UExample),            \* no hyphens
           SubSeq(UExample, 1, 35),           \* one digit short
           UExample \o <<48, 48>>,            \* one byte long
           [UExample EXCEPT ![1] = 71],       \* 'G' is no hex digit
           <<>> }

\* canonical text: 8-4-4-4-12 upper-case hex digits
IsUpperHex(c) == (c >= 48 /\ c <= 57) \/ (c >= 65 /\ c <= 70)
IsCanonical(t) ==
    /\ Len(t) = 36
    /\ \A i \in 1..36 : IF i \in {9, 14, 19, 24} THEN t[i] = Hyphen ELSE IsUpperHex(t[i])

GuidInit ==
    /\ guidMode \in {"guid", "text"}
    /\ guidSrc \in (IF guidMode = "guid" THEN GuidInputs ELSE TextInputs)
    /\ guidVal = (IF guidMode = "guid" THEN guidSrc ELSE <<>>)
    /\ guidText = (IF guidMode = "text" THEN guidSrc ELSE <<>>)
    /\ guidErr = FALSE
    /\ guidStep = 0

\* u.String() on the GUID in hand
GuidString ==
    /\ ~guidErr
    /\ \/ guidMode = "guid" /\ guidStep = 0
       \/ guidMode = "text" /\ guidStep = 1
    /\ guidText' = String(guidVal)
    /\ guidStep' = guidStep + 1
    /\ UNCHANGED <<guidMode, guidSrc, guidVal, guidErr>>
    /\ UNCHANGED <<Attributes, fvVars, biosVars, meVars, imgVars, editVars>>

\* Parse(s) on the text in hand
GuidParse ==
    /\ ~guidErr
    /\ \/ guidMode = "text" /\ guidStep = 0
       \/ guidMode = "guid" /\ guidStep = 1
    /\ guidErr' = ~Parse(guidText).ok
    /\ guidVal' = Parse(guidText).guid
    /\ guidStep' = guidStep + 1
    /\ UNCHANGED <<guidMode, guidSrc, guidText>>
    /\ UNCHANGED <<Attributes, fvVars, biosVars, meVars, imgVars, editVars>>

GuidNext == GuidString \/ GuidParse


GuidIdle ==
    /\ guidMode = "none" /\ guidSrc = <<>> /\ guidVal = <<>> /\ guidText = <<>>
    /\ guidErr = FALSE /\ guidStep = 0

(***************************************************************************)
(* Inputs of NewFirmwareVolume: volumes of 128 bytes with a chosen header, *)
(* an optional extended header and, for FFS2, a chosen first file; and     *)
(* short or unterminated ones.                                             *)
(***************************************************************************)
ZeroGUID == [i \in 1..Size |-> 0]

\* a file header of type Raw and size 24, state 0xF8
RawFileHeader == [i \in 1..24 |-> IF i = 19 THEN 1 ELSE IF i = 21 THEN 24
                                  ELSE IF i = 24 THEN 248 ELSE 0]

MkFV(len, g, length, attrs, headerLen, ext, fill) ==
    LET b0 == PutBytes(ZeroBuf(len), 16, g)
        b1 == PutBytes(b0, 32, LE(length, 8))
        b2 == PutBytes(b1, 40, fvSig)
        b3 == PutBytes(b2, 44, LE(attrs, 4))
        b4 == PutBytes(b3, 48, LE(headerLen, 2))
        b5 == PutBytes(b4, 52, LE(ext[1], 2))
        b6 == PutBytes(b5, 56, LE(1, 4) \o LE(length, 4))
        b7 == IF ext[1] # 0 THEN PutBytes(b6, ext[1] + 16, LE(ext[2], 4)) ELSE b6
        at == Align8(IF ext[1] # 0 THEN ext[1] + ext[2] ELSE headerLen)
    IN  IF fill = "free" THEN PutBytes(b7, at, Repeat(255, 32))
        ELSE IF fill = "file" THEN PutBytes(b7, at, RawFileHeader \o Repeat(255, 32))
        ELSE b7

FVInputs ==
    { MkFV(128, g, length, attrs, headerLen, ext, fill) :
        g \in {ZeroGUID}, length \in {0, 64, 100, 128, 136}, attrs \in {0, 2048, 4096},
        headerLen \in {64, 72},
        ext \in {<<0, 0>>, <<72, 20>>, <<80, 20>>, <<80, 21>>, <<108, 20>>},
        fill \in {"zero"} }
    \cup
    { MkFV(128, g, length, attrs, headerLen, ext, fill) :
        g \in {FFS2}, length \in {100, 128}, attrs \in {0, 2048},
        headerLen \in {64, 72},
        ext \in {<<0, 0>>, <<72, 20>>, <<80, 20>>, <<80, 21>>, <<108, 20>>},
        fill \in {"zero", "free", "file"} }
    \cup
    { MkFV(len, ZeroGUID, 64, attrs, 64, <<0, 0>>, "zero") :
        len \in {0, 56, 63, 64, 72}, attrs \in {0, 2048} }
    \cup
    \* a block map that runs to the end of the data without a terminator
    { PutBytes(MkFV(72, ZeroGUID, 72, attrs, 72, <<0, 0>>, "zero"), 64, LE(1, 4) \o LE(1, 4)) :
        attrs \in {0, 2048} }
    \cup
    \* a backing slice longer than Length, or a Length below a file header:
    \* a file of size bytes at 72, then free space
    { PutBytes(MkFV(128, FFS2, length, 0, 72, <<0, 0>>, "zero"), 72,
               [RawFileHeader EXCEPT ![21] = size] \o Repeat(0, size - 24)
                  \o Repeat(255, 32)) :
        length \in {16, 100}, size \in {24, 40} }

\* what the external codec answers
CodecOutcomes == { [ok |-> FALSE, out |-> ZeroBuf(0), disabled |-> FALSE] }

Unset == [set |-> FALSE, ErasePolarity |-> 0]

FVIdle ==
    /\ fvData = ZeroBuf(0) /\ fvPrev = Unset
    /\ fvRes = [st |-> "none", fv |-> NoFV]

\* one call of NewFirmwareVolume on any of the inputs
CallNewFirmwareVolume ==
    \E data \in FVInputs, resizable \in {FALSE}, cx \in CodecOutcomes :
        \E r \in {NewFirmwareVolume(data, 0, resizable, [attr |-> Attributes, cx |-> cx])} :
            /\ fvData' = data
            /\ fvPrev' = Attributes
            /\ fvRes' = [st |-> r.st, fv |-> r.fv]
            /\ Attributes' = r.attr
            /\ UNCHANGED <<guidVars, biosVars, meVars, imgVars, editVars>>

FVNext == CallNewFirmwareVolume

(***************************************************************************)
(* Inputs of the BIOS region: short buffers with up to two volume          *)
(* signatures at chosen offsets, and buffers that hold whole volumes.      *)
(***************************************************************************)
MaxScanLen == 64

ScanLens == {0, 31, 32, 36, 37, 40, 44, 45, 48, MaxScanLen}

ScanPositions == {24, 32, 33, 36, 40, 41, 44, 48} \cup {MaxScanLen - 8, MaxScanLen - 4}

\* a volume header of the zero GUID written at offset at
PutFV(b, at, length, attrs) ==
    LET b1 == PutBytes(b, at + 32, LE(length, 8))
        b2 == PutBytes(b1, at + 40, fvSig)
        b3 == PutBytes(b2, at + 44, LE(attrs, 4))
        b4 == PutBytes(b3, at + 48, LE(FirmwareVolumeMinSize, 2))
    IN  PutBytes(b4, at + 56, LE(1, 4) \o LE(length, 4))

\* an FFS2 volume of 128 bytes in a region of 136: one freeform file at 72
\* whose only section, at 96, is GUID-defined with the LZMA GUID and the
\* processing-required bit
GuidedVolume ==
    PutBytes(PutBytes(MkFV(136, FFS2, 128, 0, 72, <<0, 0>>, "zero"), 72,
                      [RawFileHeader EXCEPT ![19] = 2, ![21] = 52]),
             96, LE(28, 3) \o <<2>> \o LZMAGUID \o LE(24, 2) \o LE(1, 2) \o <<93, 0, 0, 128>>)

\* the codec fails, or decodes to one raw section of size 4, or of size 0
BiosCodecs ==
    CodecOutcomes
    \cup { [ok |-> TRUE, out |-> PutBytes(ZeroBuf(4), 0, <<n, 0, 0, 25>>), disabled |-> FALSE] :
             n \in {4, 0} }

BiosInputs ==
    { PutBytes(PutBytes(ZeroBuf(len), p, fvSig), q, fvSig) :
        len \in ScanLens, p \in ScanPositions, q \in ScanPositions }
    \cup { ZeroBuf(len) : len \in ScanLens }
    \cup { PutFV(PutFV(ZeroBuf(len), lead, length, attrs), 72, 64, 0) :
             len \in {64, 72, 136, 160}, lead \in {0, 8}, length \in {0, 64, 72, 80},
             attrs \in {0, 2048} }
    \cup { GuidedVolume }

AttributeStates == { Unset, [set |-> TRUE, ErasePolarity |-> 255] }

BiosIdle == biosData = ZeroBuf(0) /\ biosRes = [op |-> "none"]

BiosInit ==
    /\ biosData \in BiosInputs
    /\ biosRes = [op |-> "none"]
    /\ Attributes \in AttributeStates

CallFindFirmwareVolumeOffset ==
    /\ biosRes' = [op |-> "FindFirmwareVolumeOffset",
                   off |-> FindFirmwareVolumeOffset(biosData)]
    /\ UNCHANGED <<guidVars, Attributes, fvVars, biosData, meVars, imgVars, editVars>>

CallNewBIOSRegion ==
    \E cx \in BiosCodecs :
        \E r \in {NewBIOSRegion(biosData, Attributes, cx)} :
            /\ biosRes' = [op |-> "NewBIOSRegion", st |-> r.st, Elements |-> r.Elements]
            /\ Attributes' = r.attr
            /\ UNCHANGED <<guidVars, fvVars, biosData, meVars, imgVars, editVars>>

BiosNext == CallFindFirmwareVolumeOffset \/ CallNewBIOSRegion

(***************************************************************************)
(* Inputs of the ME region: a partition table of up to MaxEntries entries  *)
(* after a lead of 0 or 16 bytes, whole or cut short, or no table at all.  *)
(***************************************************************************)
MaxEntries == 2

OffsetSamples == { <<0, 0, 0, 0>>, <<16, 0, 0, 0>>, <<0, 0, 0, 128>>,
                   <<254, 255, 255, 255>>, <<255, 255, 255, 255>> }

LengthSamples == { <<0, 0, 0, 0>>, <<32, 0, 0, 0>>, <<0, 0, 0, 128>>,
                   <<255, 255, 255, 255>> }

EntrySamples == { [Offset |-> o, Length |-> l] : o \in OffsetSamples, l \in LengthSamples }

EntryLists == UNION { [1..n -> EntrySamples] : n \in 0..MaxEntries }

RECURSIVE putEntries(_, _, _, _)
putEntries(b, at, es, i) ==
    IF i > Len(es) THEN b
    ELSE putEntries(PutBytes(b, at + 32 * (i - 1) + 8, es[i].Offset \o es[i].Length),
                    at, es, i + 1)

\* a region of len bytes: lead zero bytes, "$FPT", the count, the entries
MkME(len, lead, count, es) ==
    LET b1 == PutBytes(ZeroBuf(len), lead, MEFPTSignature)
        b2 == PutBytes(b1, lead + 4, count)
    IN  putEntries(b2, lead + 4 + MEPartitionDescriptorMinLength, es, 1)

MEInputs ==
    { MkME(lead + 32 + 32 * Len(es) + extra, lead, LE(Len(es), 4), es) :
        lead \in {0, 16}, es \in EntryLists, extra \in {0, 8} }
    \cup { MkME(lead + 32 + 32 * Len(es) - 1, lead, LE(Len(es), 4), es) :
             lead \in {0}, es \in EntryLists }
    \cup { MkME(len, 0, count, <<>>) :
             len \in {4, 31, 32, 64}, count \in {<<0, 0, 0, 128>>, <<1, 0, 0, 0>>, <<0, 1, 0, 0>>} }
    \cup { ZeroBuf(len) : len \in {0, 64} }

MEIdle == meData = ZeroBuf(0) /\ meRes = [op |-> "none"]

MEInit == meData \in MEInputs /\ meRes = [op |-> "none"]

CallNewMERegion ==
    \E r \in {NewMERegion(meData)} :
        /\ meRes' = [op |-> "NewMERegion", st |-> r.st, FPT |-> r.FPT,
                     FreeSpaceOffset |-> r.FreeSpaceOffset]
        /\ UNCHANGED <<guidVars, Attributes, fvVars, biosVars, meData, imgVars, editVars>>

MENext == CallNewMERegion

(***************************************************************************)
(* Inputs of the flash image: a descriptor with or without the signature   *)
(* at offsets 0 and 16, a region section at a chosen base, the region      *)
(* entries of BIOS, ME and GbE over blocks 0..MaxBlock, and a BIOS region  *)
(* that is empty or starts with a volume.                                  *)
(***************************************************************************)
MaxBlock == 3

FRPairs == { <<b, l>> : b \in 0..MaxBlock, l \in 0..MaxBlock } \cup { <<65535, 65535>> }

FlashSizes == { k * RegionBlockSize : k \in 1..(MaxBlock + 2) }
              \cup { 2 * RegionBlockSize + 2048 }

MkImage(len, sigAt, regionBase, nr, entries, fill) ==
    LET b1 == IF 0 \in sigAt THEN PutBytes(ZeroBuf(len), 0, FlashSignature) ELSE ZeroBuf(len)
        b2 == IF 16 \in sigAt THEN PutBytes(b1, 16, FlashSignature) ELSE b1
        start == IF 16 \in sigAt THEN 20 ELSE 4
        b3 == PutBytes(b2, start, <<0, 0, regionBase, nr, 6>>)
        b4 == PutBytes(b3, regionBase * 16 + 4,
                  Concat([i \in 1..Len(entries) |->
                            LE(entries[i][1], 2) \o LE(entries[i][2], 2)]))
    IN  IF fill = "fv" THEN PutFV(b4, entries[1][1] * RegionBlockSize, 64, 0) ELSE b4

ImageInputs ==
    { MkImage(len, {16}, 4, nr, <<bios, me, gbe>>, fill) :
        len \in FlashSizes, nr \in {0, 2}, bios \in FRPairs,
        me \in {<<0, 0>>, <<1, 1>>, <<2, 2>>, <<1, 2>>, <<2, 3>>, <<3, 3>>},
        gbe \in {<<0, 0>>, <<MaxBlock, MaxBlock>>}, fill \in {"zero", "fv"} }
    \cup
    { MkImage(len, sigAt, regionBase, 0, << <<1, 1>> >>, "zero") :
        len \in {0, 4, 19, 20, 4095, 4096, 4097, 8192}, sigAt \in SUBSET {0, 16},
        regionBase \in {4, 251, 252, 253, 255} }

ImgIdle == imgData = ZeroBuf(0) /\ imgRes = [op |-> "none"]

ImgInit ==
    /\ imgData \in ImageInputs
    /\ imgRes = [op |-> "none"]
    /\ Attributes \in AttributeStates

CallFindSignature ==
    /\ \E r \in {FindSignature(imgData)} :
          imgRes' = [op |-> "FindSignature", off |-> r.off, err |-> r.err]
    /\ UNCHANGED <<guidVars, Attributes, fvVars, biosVars, meVars, imgData, editVars>>

\* fd.ParseFlashDescriptor() with fd.buf = imgData
CallParseFlashDescriptor ==
    /\ imgRes' = [op |-> "ParseFlashDescriptor", ifd |-> ParseFlashDescriptor(imgData)]
    /\ UNCHANGED <<guidVars, Attributes, fvVars, biosVars, meVars, imgData, editVars>>

NoImage == [FlashSize |-> 0, Regions |-> <<>>, IsPCH |-> FALSE]

\* NewFlashImage(imgData); constructed is what the region constructors had
\* built when the call ended, IsPCH what f.IsPCH() answers on the image
CallNewFlashImage ==
    \E cx \in CodecOutcomes :
        \E p \in {newFlashImageRegions(imgData, Attributes, cx)} :
            /\ Attributes' = p.attr
            /\ \E rs \in sortedByBase(p.Regions) :
                  \E g \in {fillRegionGaps(imgData, imgData.len, rs)} :
                      imgRes' = [op |-> "NewFlashImage",
                                 st |-> IF p.st = "ok" THEN g.st ELSE p.st,
                                 constructed |-> p.Regions,
                                 f |-> IF p.st = "ok" /\ g.st = "ok"
                                       THEN [FlashSize |-> imgData.len, Regions |-> g.Regions,
                                             IsPCH |-> IsPCH(imgData)]
                                       ELSE NoImage]
            /\ UNCHANGED <<guidVars, fvVars, biosVars, meVars, imgData, editVars>>

ImgNext == CallFindSignature \/ CallParseFlashDescriptor \/ CallNewFlashImage

(***************************************************************************)
(* FirmwareVolume.InsertFile on fv.buf, a byte sequence                    *)
(***************************************************************************)
\* an InsertFile that appends the file without the padding
InsertFileNoPadding(buf, alignedOffset, fBuf, ep) ==
    IF Len(buf) > alignedOffset THEN [err |-> TRUE, buf |-> buf]
    ELSE IF Len(fBuf) = 0 THEN [err |-> TRUE, buf |-> buf]
    ELSE [err |-> FALSE, buf |-> buf \o fBuf]

\* InsertFile(alignedOffset, fBuf) with Attributes.ErasePolarity = ep: [err, buf];
\* the padding is appended before the file is tested for being empty
InsertFile(buf, alignedOffset, fBuf, ep) ==
    IF Len(buf) > alignedOffset THEN [err |-> TRUE, buf |-> buf]
    ELSE IF Len(fBuf) = 0
         THEN [err |-> TRUE, buf |-> buf \o Repeat(ep, alignedOffset - Len(buf))]
    ELSE [err |-> FALSE, buf |-> buf \o Repeat(ep, alignedOffset - Len(buf)) \o fBuf]

MaxInsLen == 5

InsBuffers == { <<>>, <<90>>, <<90, 165>>, <<0, 0, 255>> }
InsFiles == { <<>>, <<1>>, <<1, 2>> }
InsPolarities == { Unset, [set |-> TRUE, ErasePolarity |-> 0],
                   [set |-> TRUE, ErasePolarity |-> 255] }

InsInit == insBuf \in InsBuffers /\ insRes = [op |-> "none"]

\* one call of InsertFile; the volume is not grown past MaxInsLen + 2 bytes
CallInsertFile ==
    /\ Len(insBuf) <= MaxInsLen
    /\ \E off \in 0..MaxInsLen, fBuf \in InsFiles :
          \E r \in {InsertFile(insBuf, off, fBuf, Attributes.ErasePolarity)} :
              /\ insBuf' = r.buf
              /\ insRes' = [op |-> "InsertFile", old |-> insBuf, alignedOffset |-> off,
                            fBuf |-> fBuf, err |-> r.err]
    /\ UNCHANGED <<parseVars, Attributes, fileVars, sectVars, aliasVars, visitVars>>

InsNext == CallInsertFile

(***************************************************************************)
(* Files: the header as a record, SetSize and ChecksumAndAssemble          *)
(***************************************************************************)
EmptyBodyChecksum == 170
MaxSize3 == 16777215        \* 0xFFFFFF, the largest 3-byte size

\* Checksum8: the 8-bit wrapping sum
RECURSIVE Checksum8(_)
Checksum8(s) == IF s = <<>> THEN 0 ELSE (Head(s) + Checksum8(Tail(s))) % 256

\* Write3Size: the 3-byte little-endian size, 0xFFFFFF if the size is larger
Write3Size(n) == IF n > MaxSize3 THEN <<255, 255, 255>> ELSE LE(n, 3)

\* fileAttr.IsLarge, setLarge, HasChecksum
IsLarge(a) == a % 2 # 0
setLargeKeeps(a, large) == a
setLarge(a, large) == IF large THEN (a - (a % 2)) + 1 ELSE a - (a % 2)
HasChecksum(a) == (a \div 64) % 2 # 0

\* a byte sequence as a buffer
BufOf(s) == PutBytes(ZeroBuf(Len(s)), 0, s)

\* File{}
NoFile ==
    [Header |-> [GUID |-> [i \in 1..Size |-> 0], ChecksumHeader |-> 0, ChecksumFile |-> 0,
                 Type |-> 0, Attributes |-> 0, Size |-> <<0, 0, 0>>, State |-> 0,
                 ExtendedSize |-> 0],
     buf |-> ZeroBuf(0)]

\* the File that NewFile returns on buf, r being its outcome; nil is File{} here
fileOf(buf, r) ==
    IF r.st # "ok" THEN NoFile
    ELSE [Header |-> [GUID |-> BytesAt(buf, 0, 16), ChecksumHeader |-> ByteAt(buf, 16),
                      ChecksumFile |-> ByteAt(buf, 17), Type |-> ByteAt(buf, 18),
                      Attributes |-> ByteAt(buf, 19), Size |-> BytesAt(buf, 20, 3),
                      State |-> ByteAt(buf, 23), ExtendedSize |-> r.ExtendedSize],
          buf |-> SubBuf(buf, 0, r.ExtendedSize)]

\* File.HeaderLen
HeaderLenOf(f) ==
    IF IsLarge(f.Header.Attributes) THEN FileHeaderExtMinLength ELSE FileHeaderMinLength

\* File.SetSize(size, resizeFile)
sizedHeader(fh, ext, large) ==
    [fh EXCEPT !.ExtendedSize = ext, !.Attributes = setLarge(fh.Attributes, large),
               !.Size = Write3Size(ext)]

SetSize(f, size, resizeFile) ==
    [f EXCEPT !.Header =
        sizedHeader(f.Header,
                    IF size > MaxSize3 /\ resizeFile
                    THEN size + (FileHeaderExtMinLength - FileHeaderMinLength) ELSE size,
                    size > MaxSize3)]

\* binary.Write(header, binary.LittleEndian, fh) of the FileHeaderExtended
headerBytes(fh) ==
    fh.GUID \o <<fh.ChecksumHeader, fh.ChecksumFile, fh.Type, fh.Attributes>>
            \o fh.Size \o <<fh.State>> \o LE(fh.ExtendedSize, 8)

\* File.ChecksumHeader with f.buf = buf: the sum over the header without the
\* file checksum and the state
ChecksumHeader(fh, buf) ==
    (Checksum8(BytesAt(buf, 0, IF IsLarge(fh.Attributes) THEN FileHeaderExtMinLength
                                ELSE FileHeaderMinLength))
       + (256 - fh.ChecksumFile) + (256 - fh.State)) % 256

\* the body checksum of ChecksumAndAssemble
bodyChecksum(fh, fileData) ==
    IF HasChecksum(fh.Attributes) THEN (256 - Checksum8(fileData)) % 256
    ELSE EmptyBodyChecksum

\* the file assembled from the header with its checksums set
assembled(fh, fileData) ==
    [Header |-> fh,
     buf |-> BufOf((IF IsLarge(fh.Attributes) THEN headerBytes(fh)
                    ELSE SubSeq(headerBytes(fh), 1, FileHeaderMinLength)) \o fileData)]

\* a ChecksumAndAssemble that stores the complement of the sum it finds
ChecksumAndAssembleStores(f, fileData) ==
    assembled([f.Header EXCEPT
                  !.ChecksumHeader =
                      (256 - ChecksumHeader(f.Header, BufOf(headerBytes(f.Header)))) % 256,
                  !.ChecksumFile = bodyChecksum(f.Header, fileData)],
              fileData)

\* File.ChecksumAndAssemble(fileData)
ChecksumAndAssemble(f, fileData) ==
    assembled([f.Header EXCEPT
                  !.ChecksumHeader =
                      (f.Header.ChecksumHeader + 256
                         - ChecksumHeader(f.Header, BufOf(headerBytes(f.Header)))) % 256,
                  !.ChecksumFile = bodyChecksum(f.Header, fileData)],
              fileData)

(***************************************************************************)
(* Inputs of the file component: file images for NewFile (64 bytes with a  *)
(* chosen header, and one of 16 MiB + 64 bytes), sizes for SetSize and     *)
(* bodies for ChecksumAndAssemble.                                         *)
(***************************************************************************)
MkFile(len, check, type, attrs, size3, state, ext) ==
    PutBytes(PutBytes(ZeroBuf(len), 16, <<check, 0, type, attrs>> \o size3 \o <<state>>),
             24, LE(ext, 8))

FileImages ==
    { MkFile(64, check, type, attrs, LE(size, 3), 248, 0) :
        check \in {0, 90}, type \in {0, 1}, attrs \in {0, 1, 64}, size \in {0, 24, 40, 65} }
    \cup
    { MkFile(64, 0, 1, attrs, <<255, 255, 255>>, 248, ext) :
        attrs \in {0, 1}, ext \in {5, 32, 40} }
    \cup
    { MkFile(MaxSize3 + 65, 0, 1, attrs, <<255, 255, 255>>, 248, MaxSize3 + 9) :
        attrs \in {0, 1} }
    \cup
    { PutBytes(MkFile(64, 0, 1, 0, <<255, 255, 255>>, 248, 0), 24, Repeat(255, 8)),
      MkFile(16, 0, 1, 0, <<24, 0, 0>>, 248, 0) }

SizeSamples == {0, 24, 40, MaxSize3, MaxSize3 + 1, MaxSize3 + 33}

BodySamples == { <<>>, <<1, 2>>, <<255, 2, 7>> }

FileInit == fileObj = NoFile /\ fileRes = [op |-> "none"]

CallNewFile ==
    /\ \E data \in FileImages, cx \in CodecOutcomes :
          \E r \in {NewFile(data, Attributes, cx)} :
              /\ fileObj' = fileOf(data, r)
              /\ fileRes' = [op |-> "NewFile", st |-> r.st, len |-> data.len]
    /\ UNCHANGED <<parseVars, Attributes, insVars, sectVars, aliasVars, visitVars>>

CallSetSize ==
    /\ \E size \in SizeSamples, resizeFile \in BOOLEAN :
          /\ fileObj' = SetSize(fileObj, size, resizeFile)
          /\ fileRes' = [op |-> "SetSize", size |-> size, resizeFile |-> resizeFile,
                         old |-> fileObj.Header]
    /\ UNCHANGED <<parseVars, Attributes, insVars, sectVars, aliasVars, visitVars>>

CallChecksumAndAssemble ==
    /\ \E fileData \in BodySamples :
          /\ fileObj' = ChecksumAndAssemble(fileObj, fileData)
          /\ fileRes' = [op |-> "ChecksumAndAssemble", fileData |-> fileData,
                         old |-> fileObj.Header]
    /\ UNCHANGED <<parseVars, Attributes, insVars, sectVars, aliasVars, visitVars>>

FileNext == CallNewFile \/ CallSetSize \/ CallChecksumAndAssemble

(***************************************************************************)
(* Building files: CreatePadFile, and a file written and read back.  The   *)
(* body of a built file is kept as [len, fill, m]: len bytes equal to fill *)
(* but for the offsets of m.                                               *)
(***************************************************************************)
FileStateValid == 7

FVFileTypePad == 240

FFGUID == [i \in 1..Size |-> 255]

\* a ^ b on bytes
RECURSIVE Xor8(_, _, _)
Xor8(a, b, bits) ==
    IF bits = 0 THEN 0
    ELSE ((a + b) % 2) + 2 * Xor8(a \div 2, b \div 2, bits - 1)

\* FileHeader.SetState(s)
SetState(fh, s, attr) == [fh EXCEPT !.State = Xor8(s, attr.ErasePolarity, 8)]

\* make([]byte, n) with every byte set to b
Filled(n, b) == [len |-> n, fill |-> b, m |-> NoBytes]

RECURSIVE sumOver(_, _)
sumOver(m, D) ==
    IF D = {} THEN 0
    ELSE LET o == CHOOSE x \in D : TRUE IN (m[o] + sumOver(m, D \ {o})) % 256

\* Checksum8 of a body
Checksum8Of(d) ==
    (((d.len - Cardinality(DOMAIN d.m)) % 256) * d.fill + sumOver(d.m, DOMAIN d.m)) % 256

\* a ChecksumAndAssemble that writes the extended header whatever the large bit
assembleAlwaysExtended(fh, d) == [Header |-> fh, head |-> headerBytes(fh), data |-> d]

\* the end of ChecksumAndAssemble: the header is written again, extended
\* only when the large bit is set, and the body appended; f.buf is head
\* followed by data
assembleData(fh, d) ==
    [Header |-> fh,
     head |-> IF IsLarge(fh.Attributes) THEN headerBytes(fh)
              ELSE SubSeq(headerBytes(fh), 1, FileHeaderMinLength),
     data |-> d]

\* File.ChecksumAndAssemble(fileData) on a body d
ChecksumAndAssembleData(f, d) ==
    assembleData([f.Header EXCEPT
                     !.ChecksumHeader =
                         (f.Header.ChecksumHeader + 256
                            - ChecksumHeader(f.Header, BufOf(headerBytes(f.Header)))) % 256,
                     !.ChecksumFile =
                         IF HasChecksum(f.Header.Attributes)
                         THEN (256 - Checksum8Of(d)) % 256 ELSE EmptyBodyChecksum],
                 d)

padFail == [st |-> "err", Header |-> NoFile.Header, head |-> <<>>, data |-> Filled(0, 0)]

padBuilt(b) == [st |-> "ok", Header |-> b.Header, head |-> b.head, data |-> b.data]

\* CreatePadFile after the size and polarity checks: f is the file with its
\* GUID set
padOf(f, size, attr) ==
    LET sized == SetSize([f EXCEPT !.Header.Attributes = 0], size, FALSE)
        typed == [sized EXCEPT !.Header.Type = FVFileTypePad]
        n     == IF IsLarge(typed.Header.Attributes) THEN size - FileHeaderExtMinLength
                 ELSE size - FileHeaderMinLength
        valid == [typed EXCEPT !.Header = SetState(typed.Header, FileStateValid, attr)]
    IN  padBuilt(ChecksumAndAssembleData(valid, Filled(n, attr.ErasePolarity)))

\* CreatePadFile(size)
CreatePadFile(size, attr) ==
    IF size < FileHeaderMinLength THEN padFail
    ELSE IF attr.ErasePolarity = 255 THEN padOf([NoFile EXCEPT !.Header.GUID = FFGUID], size, attr)
    ELSE IF attr.ErasePolarity = 0 THEN padOf(NoFile, size, attr)
    ELSE padFail

PadSizes == 0..48 \cup (MaxSize3 - 2)..(MaxSize3 + 40)

PadPolarities == { Unset, [set |-> TRUE, ErasePolarity |-> 0],
                   [set |-> TRUE, ErasePolarity |-> 255],
                   [set |-> TRUE, ErasePolarity |-> 90] }

CallCreatePadFile ==
    /\ \E size \in PadSizes :
          \E r \in {CreatePadFile(size, Attributes)} :
              fileRes' = [op |-> "CreatePadFile", size |-> size, st |-> r.st,
                          Header |-> r.Header, head |-> r.head, data |-> r.data]
    /\ UNCHANGED <<parseVars, Attributes, fileObj, insVars, sectVars, aliasVars, visitVars>>

\* f.buf of a built file whose body is filled with zero: head, then data
FlatBuf(head, d) ==
    LET hb == PutBytes(ZeroBuf(Len(head) + d.len), 0, head)
    IN  [len |-> hb.len,
         m |-> [o \in DOMAIN hb.m \cup {x + Len(head) : x \in DOMAIN d.m} |->
                  IF o < Len(head) THEN hb.m[o] ELSE d.m[o - Len(head)]]]

\* the headers a file is built from: type Raw or Pad, without and with the
\* body checksum attribute
BaseFiles ==
    { [NoFile EXCEPT !.Header.Type = t, !.Header.Attributes = a, !.Header.State = 248] :
        t \in {1, FVFileTypePad}, a \in {0, 64} }

WriteSizes == 24..34 \cup (MaxSize3 - 1)..(MaxSize3 + 1) \cup {MaxSize3 + 33}

\* bodies of n bytes: zeros, but for some of the first bytes
BodiesOf(n) ==
    { [len |-> n, fill |-> 0, m |-> [o \in D |-> 255]] :
        D \in {{}, {o \in 0..7 : o < n}, {o \in {0} : o < n}} }

\* a file is sized with SetSize(n, false), assembled around a body that fills
\* it, and the buffer is read back with NewFile
CallWriteRead ==
    /\ \E f \in BaseFiles, n \in WriteSizes, cx \in CodecOutcomes :
          \E sized \in {SetSize(f, n, FALSE)} :
              \E d \in BodiesOf(n - HeaderLenOf(sized)) :
                  \E b \in {ChecksumAndAssembleData(sized, d)} :
                      \E r \in {NewFile(FlatBuf(b.head, b.data), Attributes, cx)} :
                          /\ fileRes' =
                                [op |-> "WriteRead", n |-> n, written |-> b.Header,
                                 HeaderLen |-> Len(b.head), body |-> [len |-> d.len, m |-> d.m],
                                 st |-> r.st, ExtendedSize |-> r.ExtendedSize,
                                 DataOffset |-> r.DataOffset,
                                 read |-> IF r.st = "ok"
                                          THEN SubBuf(FlatBuf(b.head, b.data), r.DataOffset,
                                                      r.ExtendedSize)
                                          ELSE ZeroBuf(0)]
                          /\ Attributes' = r.attr
    /\ UNCHANGED <<parseVars, fileObj, insVars, sectVars, aliasVars, visitVars>>

BuildNext == CallCreatePadFile \/ CallWriteRead

(***************************************************************************)
(* Dependency expressions and the section component                        *)
(***************************************************************************)
\* DepExOpCodes: the name of opcode c is DepExOpCodes[c + 1]
DepExOpCodes == <<"BEFORE", "AFTER", "PUSH", "AND", "OR", "NOT", "TRUE", "FALSE",
                  "END", "SOR">>

depExFail == [err |-> TRUE, ops |-> <<>>]

\* parseDepEx(b), reading from index i on with the operations ops decoded so far
RECURSIVE depExLoop(_, _, _)
depExLoop(b, i, ops) ==
    IF i > Len(b) THEN depExFail
    ELSE IF b[i] >= Len(DepExOpCodes) THEN depExFail
    ELSE IF b[i] <= 2
         THEN IF i + Size > Len(b) THEN depExFail
              ELSE depExLoop(b, i + 1 + Size,
                             Append(ops, [OpCode |-> DepExOpCodes[b[i] + 1],
                                          GUID |-> SubSeq(b, i + 1, i + Size)]))
    ELSE IF DepExOpCodes[b[i] + 1] = "END"
         THEN [err |-> FALSE, ops |-> Append(ops, [OpCode |-> "END", GUID |-> <<>>])]
    ELSE depExLoop(b, i + 1, Append(ops, [OpCode |-> DepExOpCodes[b[i] + 1],
                                          GUID |-> <<>>]))

parseDepEx(b) == depExLoop(b, 1, <<>>)

\* s.DepEx of the section r that NewSection returned on buf: a dependency
\* expression that does not parse is logged and the field stays nil
depExField(p) == IF p.err THEN <<>> ELSE p.ops

depExOf(buf, r) ==
    IF r.st = "ok" /\ r.Type \in {19, 27, 28}
    THEN depExField(parseDepEx(BytesAt(buf, r.headerSize, r.ExtendedSize - r.headerSize)))
    ELSE <<>>

\* s.buf of the section r that NewSection returned on buf
sectionBuf(buf, r) == IF r.st = "ok" THEN SubBuf(buf, 0, r.ExtendedSize) ELSE ZeroBuf(0)

(***************************************************************************)
(* Inputs of NewSection: short buffers with a chosen size field, type and  *)
(* extended size, and dependency expression sections.                      *)
(***************************************************************************)
MkSection(len, size3, type, rest) == PutBytes(ZeroBuf(len), 0, size3 \o <<type>> \o rest)

SampleGuid == [i \in 1..Size |-> 16 + i]

DepExBodies ==
    { <<>>, <<6, 8>>, <<6>>, <<8, 6>>, <<10, 8>>, <<2, 1, 2>>, <<3, 4, 5, 7, 9>>,
      <<2>> \o SampleGuid \o <<6, 8>>, <<2>> \o SampleGuid \o <<6>>,
      <<0>> \o SampleGuid \o <<1>> \o SampleGuid \o <<3, 8>> }

SectionInputs ==
    { MkSection(len, size3, type, ext) :
        len \in {3, 4, 8, 16}, type \in {25, 64},
        size3 \in {LE(0, 3), LE(4, 3), LE(8, 3), LE(16, 3), LE(17, 3), <<255, 255, 255>>},
        ext \in {LE(8, 4), LE(16, 4), LE(17, 4), <<255, 255, 255, 255>>, <<0, 0, 0, 128>>} }
    \cup
    { MkSection(4 + Len(body) + slack, LE(4 + Len(body), 3), type, body) :
        type \in {19, 27, 28}, body \in DepExBodies, slack \in {0, 4} }

CallNewSection ==
    /\ \E data \in SectionInputs, cx \in CodecOutcomes :
          \E r \in {NewSection(data, Attributes, cx)} :
              /\ sectData' = data
              /\ sectRes' = [op |-> "NewSection", st |-> r.st, Type |-> r.Type,
                             ExtendedSize |-> r.ExtendedSize, headerSize |-> r.headerSize,
                             buf |-> sectionBuf(data, r), DepEx |-> depExOf(data, r)]
    /\ UNCHANGED <<parseVars, Attributes, insVars, fileVars, aliasVars, visitVars>>

SectNext == CallNewSection

(***************************************************************************)
(* GUID-defined sections: NewSection on sections of type 2 with a codec    *)
(* that fails or answers one of a few decoded streams.                     *)
(***************************************************************************)
\* the SectionGUIDDefinedHeader that follows a section header of hs bytes
guidedHeader(buf, hs) ==
    [GUID |-> BytesAt(buf, hs, 16), DataOffset |-> U16(buf, hs + 16),
     Attributes |-> U16(buf, hs + 18)]

\* whether NewSection looks for a codec, and whether it calls Decode
processingRequired(g, cx) == g.Attributes % 2 # 0 /\ ~cx.disabled

codecInvoked(g, cx) == processingRequired(g, cx) /\ HasCompressor(g.GUID)

\* a Compression that keeps the codec's name when Decode fails
compressionKeepsName(g, cx) ==
    IF ~processingRequired(g, cx) THEN ""
    ELSE IF ~HasCompressor(g.GUID) THEN "UNKNOWN"
    ELSE "LZMA"

\* typeSpec.Compression of the section that NewSection returned
compressionOf(g, cx) ==
    IF ~processingRequired(g, cx) THEN ""
    ELSE IF ~HasCompressor(g.GUID) THEN "UNKNOWN"
    ELSE IF cx.ok THEN "LZMA" ELSE "UNKNOWN"

\* the bytes given to Decode: buf[typeSpec.DataOffset:]
codecInput(buf, g) == [from |-> g.DataOffset, to |-> buf.len]

MkGuided(len, head, g, off, attrs) ==
    PutBytes(PutBytes(ZeroBuf(len), 0, head \o g \o LE(off, 2) \o LE(attrs, 2)),
             Len(head) + 20, <<17, 34, 51, 68>>)

GuidedInputs ==
    { MkGuided(len, LE(size, 3) \o <<2>>, g, off, attrs) :
        len \in {20, 32}, size \in {8, 24, 32}, g \in {LZMAGUID, SampleGuid},
        off \in {0, 24, 28, 33}, attrs \in {0, 1, 3} }
    \cup
    { MkGuided(36, <<255, 255, 255, 2>> \o LE(size, 4), g, off, 1) :
        size \in {28, 36}, g \in {LZMAGUID, SampleGuid}, off \in {28, 36, 37} }

\* decoded streams: nothing; one raw section; two raw sections, the second
\* 4-byte aligned; a raw section of size 0; a raw section larger than the stream
DecodedStreams ==
    { ZeroBuf(0),
      MkSection(4, LE(4, 3), 25, <<>>),
      PutBytes(MkSection(12, LE(5, 3), 25, <<170>>), 8, <<4, 0, 0, 25>>),
      MkSection(4, LE(0, 3), 25, <<>>),
      PutBytes(MkSection(8, LE(4, 3), 25, <<>>), 4, <<0, 0, 0, 25>>),
      MkSection(4, LE(9, 3), 25, <<>>) }

GuidedCodecs ==
    { [ok |-> FALSE, out |-> ZeroBuf(0), disabled |-> d] : d \in BOOLEAN }
    \cup { [ok |-> TRUE, out |-> o, disabled |-> FALSE] : o \in DecodedStreams }
    \cup { [ok |-> TRUE, out |-> MkSection(4, LE(4, 3), 25, <<>>), disabled |-> TRUE] }

CallNewSectionGuided ==
    /\ \E data \in GuidedInputs, cx \in GuidedCodecs :
          \E r \in {NewSection(data, Attributes, cx)} :
              \E g \in {guidedHeader(data, sectionHeader(data).headerSize)} :
                  /\ sectData' = data
                  /\ sectRes' = [op |-> "NewSection", st |-> r.st, Type |-> r.Type,
                                 ExtendedSize |-> r.ExtendedSize,
                                 headerSize |-> r.headerSize,
                                 buf |-> sectionBuf(data, r), cx |-> cx,
                                 TypeSpecific |-> g,
                                 Compression |-> IF r.st = "ok" THEN compressionOf(g, cx)
                                                 ELSE "",
                                 Encapsulated |-> r.Encapsulated,
                                 codecIn |-> codecInput(data, g)]
                  /\ Attributes' = r.attr
    /\ UNCHANGED <<parseVars, insVars, fileVars, aliasVars, visitVars>>

GuidedNext == CallNewSectionGuided

(***************************************************************************)
(* GenSecHeader: a section is [Header, TypeSpecific, buf]; TypeSpecific is *)
(* the GUID-defined header, set = FALSE standing for nil.                  *)
(***************************************************************************)
SectionMinLength == 4

NoTypeSpecific == [set |-> FALSE, GUID |-> ZeroGUID, DataOffset |-> 0, Attributes |-> 0]

\* headerLen and ExtendedSize for a body of n bytes and a type-specific
\* header of tsLen bytes
genSizes(n, tsLen) ==
    LET headerLen == SectionMinLength + tsLen
        ext == n + headerLen >= MaxSize3
    IN  [headerLen |-> IF ext THEN headerLen + 4 ELSE headerLen,
         ExtendedSize |-> IF ext THEN n + headerLen + 4 ELSE n + headerLen]

\* binary.Write of the SectionGUIDDefinedHeader
guidedBytes(ts) == ts.GUID \o LE(ts.DataOffset, 2) \o LE(ts.Attributes, 2)

\* binary.Write of the common header: extended from 0xFFFFFF on
commonBytes(hdr) ==
    hdr.Size \o <<hdr.Type>>
    \o (IF hdr.ExtendedSize >= MaxSize3 THEN LE(hdr.ExtendedSize, 4) ELSE <<>>)

\* Section.GenSecHeader
GenSecHeader(s) ==
    LET z   == genSizes(s.buf.len, IF s.TypeSpecific.set THEN 20 ELSE 0)
        ts  == IF s.Header.Type = 2
               THEN [s.TypeSpecific EXCEPT !.DataOffset = z.headerLen % 65536]
               ELSE s.TypeSpecific
        hdr == [Size |-> Write3Size(z.ExtendedSize), Type |-> s.Header.Type,
                ExtendedSize |-> z.ExtendedSize]
    IN  [Header |-> hdr, TypeSpecific |-> ts,
         buf |-> FlatBuf(commonBytes(hdr) \o (IF s.Header.Type = 2 THEN guidedBytes(ts)
                                              ELSE <<>>),
                         [len |-> s.buf.len, fill |-> 0, m |-> s.buf.m])]

\* CreateSection(t, buf, nil, g): the section before its header is generated
CreateSection(t, buf, g) ==
    [Header |-> [Size |-> <<0, 0, 0>>, Type |-> t, ExtendedSize |-> 0],
     TypeSpecific |-> IF t = 2 THEN [set |-> TRUE, GUID |-> g, DataOffset |-> 0,
                                     Attributes |-> 1]
                      ELSE NoTypeSpecific,
     buf |-> buf]

GenBodyLens == 0..6 \cup (MaxSize3 - 26)..(MaxSize3 + 2)

GenBodies ==
    UNION { { [len |-> n, m |-> [o \in D |-> 165]] : D \in {{}, {o \in {0, 3} : o < n}} } :
            n \in GenBodyLens }

GenTypes == {2, 16, 25, 64}

GenCodecs ==
    { [ok |-> FALSE, out |-> ZeroBuf(0), disabled |-> FALSE],
      [ok |-> TRUE, out |-> MkSection(4, LE(4, 3), 25, <<>>), disabled |-> FALSE] }

\* a section is created, its header generated, and its buffer parsed again
CallGenSecHeader ==
    /\ \E t \in GenTypes, body \in GenBodies, g \in {LZMAGUID, SampleGuid}, cx \in GenCodecs :
          \E s \in {GenSecHeader(CreateSection(t, body, g))} :
              \E r \in {NewSection(s.buf, Attributes, cx)} :
                  /\ sectData' = s.buf
                  /\ sectRes' = [op |-> "GenSecHeader", Type |-> t, body |-> body,
                                 Header |-> s.Header, TypeSpecific |-> s.TypeSpecific,
                                 st |-> r.st, readType |-> r.Type,
                                 readExtendedSize |-> r.ExtendedSize,
                                 readBody |->
                                    IF r.st = "ok"
                                    THEN SubBuf(s.buf,
                                                r.headerSize + (IF r.Type = 2 THEN 20 ELSE 0),
                                                r.ExtendedSize)
                                    ELSE ZeroBuf(0)]
                  /\ Attributes' = r.attr
    /\ UNCHANGED <<parseVars, insVars, fileVars, aliasVars, visitVars>>

GenNext == CallGenSecHeader

(***************************************************************************)
(* Buffers of the nodes.  heap.input is the slice the caller gave to the   *)
(* parser and heap.image the copy that NewFlashImage keeps as f.buf.  A     *)
(* node's buffer is a slice [from, to) of one of the two, or bytes of its  *)
(* own (arr = "own").                                                      *)
(***************************************************************************)
sliceOf(kind, arr, from, to) ==
    [kind |-> kind, arr |-> arr, from |-> from, to |-> to, bytes |-> ZeroBuf(0)]

copyOf(kind, input, from, to) ==
    [kind |-> kind, arr |-> "own", from |-> 0, to |-> to - from,
     bytes |-> SubBuf(input, from, to)]

\* "if ReadOnly { x.buf = buf[:n] } else { x.buf = make(...); copy(x.buf, ...) }"
sliceOrCopy(ro, kind, input, from, to) ==
    IF ro THEN sliceOf(kind, "input", from, to) ELSE copyOf(kind, input, from, to)

\* Buf() of the node n
NodeBuf(h, n) == IF n.arr = "own" THEN n.bytes ELSE SubBuf(h[n.arr], n.from, n.to)

\* the nodes of a volume parsed from input[base:]: the volume and its files
volumeNodes(ro, input, base, fv) ==
    <<sliceOrCopy(ro, "FirmwareVolume", input, base, base + fv.Length)>>
    \o [i \in 1..Len(fv.Files) |->
          sliceOrCopy(ro, "File", input, base + fv.Files[i].offset,
                      base + fv.Files[i].offset + fv.Files[i].ExtendedSize)]

\* the node of an element of a BIOS region parsed from input[base:]:
\* NewBIOSPadding keeps the slice it is given
elementNode(ro, input, base, e) ==
    IF e.kind = "BIOSPadding"
    THEN sliceOf("BIOSPadding", "input", base + e.Offset, base + e.Offset + e.buf.len)
    ELSE sliceOrCopy(ro, "FirmwareVolume", input, base + e.Offset,
                     base + e.Offset + e.buf.len)

\* the nodes of the BIOS region r parsed from input[base:to]
biosNodes(ro, input, base, to, r) ==
    IF r.st # "ok" THEN <<>>
    ELSE <<sliceOrCopy(ro, "BIOSRegion", input, base, to)>>
         \o [i \in 1..Len(r.Elements) |-> elementNode(ro, input, base, r.Elements[i])]

\* the nodes of one region of a flash image: a gap is a slice of f.buf, a BIOS
\* region is parsed from the caller's slice, NewMERegion and NewRawRegion copy
regionNodes(ro, input, attr, cx, r) ==
    IF r.Type = RegionTypeUnknown THEN <<sliceOf("RawRegion", "image", r.from, r.to)>>
    ELSE IF r.Type = RegionTypeBIOS
         THEN biosNodes(ro, input, r.from, r.to,
                        NewBIOSRegion(SubBuf(input, r.from, r.to), attr, cx))
    ELSE IF r.Type = RegionTypeME THEN <<copyOf("MERegion", input, r.from, r.to)>>
    ELSE <<copyOf("RawRegion", input, r.from, r.to)>>

\* the nodes of a flash image: the image with f.buf, the descriptor with its
\* copy of the first 4096 bytes, and the regions
imageNodes(ro, input, attr, cx, regions) ==
    <<sliceOf("FlashImage", "image", 0, input.len),
      copyOf("FlashDescriptor", input, 0, FlashDescriptorLength)>>
    \o Concat([i \in 1..Len(regions) |-> regionNodes(ro, input, attr, cx, regions[i])])

AliasVolumes ==
    { MkFV(128, g, 128, 0, 64, <<0, 0>>, fill) :
        g \in {FFS2, ZeroGUID}, fill \in {"free", "file"} }

AliasBios ==
    { PutFV(PutFV(ZeroBuf(len), lead, 64, 0), 72, 64, 0) :
        len \in {136, 160}, lead \in {0, 8} }

AliasSections == { MkSection(16, LE(8, 3), 25, <<1, 2, 3, 4>>),
                   MkSection(16, LE(17, 3), 64, <<1, 2, 3, 4>>) }

AliasImages ==
    { MkImage(len, {16}, 4, 0, <<bios, me, <<0, 0>> >>, fill) :
        len \in {4 * RegionBlockSize, 5 * RegionBlockSize},
        bios \in {<<1, 1>>, <<2, 2>>}, me \in {<<0, 0>>, <<3, 3>>},
        fill \in {"zero", "fv"} }

\* the offsets at which the caller writes after the parse
MutOffsets == {0, 40, 140, RegionBlockSize + 8, 2 * RegionBlockSize + 8}

\* the caller writes at most MaxWrites bytes
MaxWrites == 2

Written(b) == Cardinality({o \in MutOffsets : ByteAt(b, o) = 238})

AliasInit ==
    /\ ReadOnly \in BOOLEAN
    /\ heap = [input |-> ZeroBuf(0), image |-> ZeroBuf(0)]
    /\ nodes = <<>>

AliasNewSection ==
    /\ nodes = <<>>
    /\ \E data \in AliasSections, cx \in CodecOutcomes :
          \E r \in {NewSection(data, Attributes, cx)} :
              /\ r.st = "ok"
              /\ heap' = [heap EXCEPT !.input = data]
              /\ nodes' = <<sliceOrCopy(ReadOnly, "Section", data, 0, r.ExtendedSize)>>
              /\ Attributes' = r.attr
    /\ UNCHANGED <<parseVars, ReadOnly, insVars, fileVars, sectVars, visitVars>>

AliasNewFirmwareVolume ==
    /\ nodes = <<>>
    /\ \E data \in AliasVolumes, cx \in CodecOutcomes :
          \E r \in {NewFirmwareVolume(data, 0, FALSE, [attr |-> Attributes, cx |-> cx])} :
              /\ r.st = "ok"
              /\ heap' = [heap EXCEPT !.input = data]
              /\ nodes' = volumeNodes(ReadOnly, data, 0, r.fv)
              /\ Attributes' = r.attr
    /\ UNCHANGED <<parseVars, ReadOnly, insVars, fileVars, sectVars, visitVars>>

AliasNewBIOSRegion ==
    /\ nodes = <<>>
    /\ \E data \in AliasBios, cx \in CodecOutcomes :
          \E r \in {NewBIOSRegion(data, Attributes, cx)} :
              /\ r.st = "ok"
              /\ heap' = [heap EXCEPT !.input = data]
              /\ nodes' = biosNodes(ReadOnly, data, 0, data.len, r)
              /\ Attributes' = r.attr
    /\ UNCHANGED <<parseVars, ReadOnly, insVars, fileVars, sectVars, visitVars>>

AliasNewFlashImage ==
    /\ nodes = <<>>
    /\ \E data \in AliasImages, cx \in CodecOutcomes :
          \E p \in {newFlashImageRegions(data, Attributes, cx)} :
              \E rs \in sortedByBase(p.Regions) :
                  \E g \in {fillRegionGaps(data, data.len, rs)} :
                      /\ p.st = "ok" /\ g.st = "ok"
                      /\ heap' = [input |-> data, image |-> data]
                      /\ nodes' = imageNodes(ReadOnly, data, Attributes, cx, g.Regions)
                      /\ Attributes' = p.attr
    /\ UNCHANGED <<parseVars, ReadOnly, insVars, fileVars, sectVars, visitVars>>

\* after the parse the caller writes one byte of its slice, or of the buffer
\* that FlashImage.Buf() returns
MutateBuffer ==
    /\ nodes # <<>>
    /\ Written(heap.input) + Written(heap.image) < MaxWrites
    /\ \E arr \in {"input", "image"}, o \in MutOffsets :
          /\ o < heap[arr].len
          /\ ByteAt(heap[arr], o) # 238
          /\ heap' = [heap EXCEPT ![arr] = PutBytes(heap[arr], o, <<238>>)]
    /\ UNCHANGED <<parseVars, Attributes, ReadOnly, nodes, insVars, fileVars, sectVars,
                   visitVars>>

AliasNext ==
    \/ AliasNewSection \/ AliasNewFirmwareVolume \/ AliasNewBIOSRegion
    \/ AliasNewFlashImage \/ MutateBuffer

(***************************************************************************)
(* ApplyChildren.  A node is a record of its kind and of the fields that    *)
(* hold its children; a child is named by a number, 0 for a child held in   *)
(* a single field (IFD, NVarStore, FPT) and 1..MaxChildren for the elements *)
(* of a slice.  The visitor is the set of children on which it returns an   *)
(* error; the error it returns for child c is c, and NoError is nil.        *)
(***************************************************************************)
MaxChildren == 3

NoError == -1

ChildIds == 0..MaxChildren

\* a loop that remembers an error and goes on with the next child
RECURSIVE applyEachContinues(_, _, _, _, _)
applyEachContinues(children, i, fails, visited, err) ==
    IF i > Len(children) THEN [visited |-> visited, err |-> err]
    ELSE applyEachContinues(children, i + 1, fails, Append(visited, children[i]),
                            IF err = NoError /\ children[i] \in fails
                            THEN children[i] ELSE err)

\* for _, c := range children { if err := c.Apply(v); err != nil { return err } }
\* return nil
RECURSIVE applyEach(_, _, _, _, _)
applyEach(children, i, fails, visited, err) ==
    IF i > Len(children) THEN [visited |-> visited, err |-> NoError]
    ELSE IF children[i] \in fails
         THEN [visited |-> Append(visited, children[i]), err |-> children[i]]
         ELSE applyEach(children, i + 1, fails, Append(visited, children[i]), err)

RECURSIVE seqsOver(_, _)
seqsOver(S, n) ==
    IF n = 0 THEN {<<>>}
    ELSE LET shorter == seqsOver(S, n - 1)
         IN shorter \cup {Append(s, x) : s \in {t \in shorter : Len(t) = n - 1}, x \in S}

\* the slices of children: no child twice, in any order
ChildLists ==
    {s \in seqsOver(1..MaxChildren, MaxChildren) :
        \A i, j \in 1..Len(s) : i # j => s[i] # s[j]}

VisitNodes ==
    {[kind |-> "FlashImage", IFD |-> 0, Regions |-> s] : s \in ChildLists}
    \cup {[kind |-> "BIOSRegion", Elements |-> s] : s \in ChildLists}
    \cup {[kind |-> "FirmwareVolume", Files |-> s] : s \in ChildLists}
    \cup {[kind |-> "File", NVarStore |-> NoError, Sections |-> s] : s \in ChildLists}
    \cup {[kind |-> "File", NVarStore |-> 0, Sections |-> <<>>]}
    \cup {[kind |-> "Section", Encapsulated |-> s] : s \in ChildLists}
    \cup {[kind |-> "MERegion", FPT |-> p] : p \in {NoError, 0}}
    \cup {[kind |-> k] : k \in {"FlashDescriptor", "RawRegion", "BIOSPadding", "MEFPT"}}

VisitInit == visitNode \in VisitNodes /\ visitRes = [op |-> "none"]

visitResult(fails, r) ==
    [op |-> "ApplyChildren", fails |-> fails, visited |-> r.visited, err |-> r.err]

FlashImageApplyChildren ==
    /\ visitNode.kind = "FlashImage"
    /\ \E fails \in SUBSET ChildIds :
          \E d \in {applyEach(<<visitNode.IFD>>, 1, fails, <<>>, NoError)} :
              \E r \in {IF d.err # NoError THEN d
                        ELSE applyEach(visitNode.Regions, 1, fails, d.visited, NoError)} :
                  visitRes' = visitResult(fails, r)
    /\ UNCHANGED <<parseVars, Attributes, insVars, fileVars, sectVars, aliasVars, visitNode>>

BIOSRegionApplyChildren ==
    /\ visitNode.kind = "BIOSRegion"
    /\ \E fails \in SUBSET ChildIds :
          \E r \in {applyEach(visitNode.Elements, 1, fails, <<>>, NoError)} :
              visitRes' = visitResult(fails, r)
    /\ UNCHANGED <<parseVars, Attributes, insVars, fileVars, sectVars, aliasVars, visitNode>>

FirmwareVolumeApplyChildren ==
    /\ visitNode.kind = "FirmwareVolume"
    /\ \E fails \in SUBSET ChildIds :
          \E r \in {applyEach(visitNode.Files, 1, fails, <<>>, NoError)} :
              visitRes' = visitResult(fails, r)
    /\ UNCHANGED <<parseVars, Attributes, insVars, fileVars, sectVars, aliasVars, visitNode>>

FileApplyChildren ==
    /\ visitNode.kind = "File"
    /\ \E fails \in SUBSET ChildIds :
          \E r \in {IF visitNode.NVarStore # NoError
                    THEN applyEach(<<visitNode.NVarStore>>, 1, fails, <<>>, NoError)
                    ELSE applyEach(visitNode.Sections, 1, fails, <<>>, NoError)} :
              visitRes' = visitResult(fails, r)
    /\ UNCHANGED <<parseVars, Attributes, insVars, fileVars, sectVars, aliasVars, visitNode>>

SectionApplyChildren ==
    /\ visitNode.kind = "Section"
    /\ \E fails \in SUBSET ChildIds :
          \E r \in {applyEach(visitNode.Encapsulated, 1, fails, <<>>, NoError)} :
              visitRes' = visitResult(fails, r)
    /\ UNCHANGED <<parseVars, Attributes, insVars, fileVars, sectVars, aliasVars, visitNode>>

MERegionApplyChildren ==
    /\ visitNode.kind = "MERegion"
    /\ \E fails \in SUBSET ChildIds :
          \E r \in {IF visitNode.FPT = NoError THEN [visited |-> <<>>, err |-> NoError]
                    ELSE applyEach(<<visitNode.FPT>>, 1, fails, <<>>, NoError)} :
              visitRes' = visitResult(fails, r)
    /\ UNCHANGED <<parseVars, Attributes, insVars, fileVars, sectVars, aliasVars, visitNode>>

\* FlashDescriptor, RawRegion, BIOSPadding and MEFPT: return nil
LeafApplyChildren ==
    /\ visitNode.kind \in {"FlashDescriptor", "RawRegion", "BIOSPadding", "MEFPT"}
    /\ \E fails \in SUBSET ChildIds :
          visitRes' = visitResult(fails, [visited |-> <<>>, err |-> NoError])
    /\ UNCHANGED <<parseVars, Attributes, insVars, fileVars, sectVars, aliasVars, visitNode>>

VisitNext ==
    \/ FlashImageApplyChildren \/ BIOSRegionApplyChildren \/ FirmwareVolumeApplyChildren
    \/ FileApplyChildren \/ SectionApplyChildren \/ MERegionApplyChildren
    \/ LeafApplyChildren

(***************************************************************************)
(* The Find visitor over a tree of firmware nodes.  A tree has the nodes   *)
(* 1..n with root 1; parent[i] < i, and the children of a node are visited *)
(* in increasing order.  pred is the set of nodes the Predicate holds for. *)
(***************************************************************************)
MaxFindNodes == 5
NoCurrentFile == 0          \* currentFile == nil

\* the kinds of children the ApplyChildren of each kind of node visits
FindChildKinds(k) ==
    CASE k = "File" -> {"Section"}
      [] k = "Section" -> {"Section", "FirmwareVolume"}
      [] k = "FirmwareVolume" -> {"File", "NVar"}
      [] OTHER -> {}

FindTreesOf(n) ==
    { [n |-> n, parent |-> p, kind |-> k] :
        p \in { q \in [2..n -> 1..(n - 1)] : \A i \in 2..n : q[i] < i },
        k \in [1..n -> {"File", "Section", "FirmwareVolume", "NVar"}] }

FindWellKinded(t) == \A i \in 2..t.n : t.kind[i] \in FindChildKinds(t.kind[t.parent[i]])

FindTrees == UNION { { t \in FindTreesOf(n) : FindWellKinded(t) } : n \in 1..MaxFindNodes }

findChildren(t, f) ==
    SelectSeq([j \in 1..t.n |-> j], LAMBDA j : j > 1 /\ t.parent[j] = f)

\* Find.Visit(f) on the visitor v = [Matches, currentFile]; the visitor after it.
\* findApplyAll is f.ApplyChildren(v): Visit never returns an error of its own.
RECURSIVE FindVisit(_, _, _, _), findApplyAll(_, _, _, _, _)
findApplyAll(t, pred, children, i, v) ==
    IF i > Len(children) THEN v
    ELSE findApplyAll(t, pred, children, i + 1, FindVisit(t, pred, children[i], v))

FindVisit(t, pred, f, v) ==
    CASE t.kind[f] = "File" ->
            LET hit == f \in pred
                v2 == findApplyAll(t, pred, findChildren(t, f), 1,
                                   [Matches |-> <<>>,
                                    currentFile |-> IF hit THEN NoCurrentFile ELSE f])
            IN  [v EXCEPT !.Matches = (IF hit THEN Append(@, f) ELSE @) \o v2.Matches]
      [] t.kind[f] = "Section" ->
            findApplyAll(t, pred, findChildren(t, f), 1,
                         IF v.currentFile # NoCurrentFile /\ f \in pred
                         THEN [Matches |-> Append(v.Matches, v.currentFile),
                               currentFile |-> NoCurrentFile]
                         ELSE v)
      [] t.kind[f] = "NVar" ->
            IF f \in pred THEN [v EXCEPT !.Matches = Append(@, f)] ELSE v
      [] OTHER ->
            findApplyAll(t, pred, findChildren(t, f), 1,
                         IF f \in pred THEN [v EXCEPT !.Matches = Append(@, f)] ELSE v)

FindInit ==
    /\ \E t \in FindTrees, pred \in SUBSET (1..MaxFindNodes) :
          /\ pred \subseteq 1..t.n
          /\ visitNode = [kind |-> "tree", tree |-> t, pred |-> pred]
    /\ visitRes = [op |-> "none"]

\* Find.Run(f) on a fresh Find with W == nil, f the root of the tree
FindRun ==
    /\ visitNode.kind = "tree"
    /\ \E r \in {FindVisit(visitNode.tree, visitNode.pred, 1,
                           [Matches |-> <<>>, currentFile |-> NoCurrentFile])} :
          visitRes' = [op |-> "Run", Matches |-> r.Matches, err |-> NoError]
    /\ UNCHANGED <<parseVars, Attributes, insVars, fileVars, sectVars, aliasVars, visitNode>>

FindNext == FindRun

(***************************************************************************)
(* The state of the editing, section, aliasing and visitor components      *)
(* while they are not under test.                                          *)
(***************************************************************************)
InsIdle == insBuf = <<>> /\ insRes = [op |-> "none"]

FileIdle == fileObj = NoFile /\ fileRes = [op |-> "none"]

SectIdle == sectData = ZeroBuf(0) /\ sectRes = [op |-> "none"]

AliasIdle ==
    /\ ReadOnly = FALSE
    /\ heap = [input |-> ZeroBuf(0), image |-> ZeroBuf(0)]
    /\ nodes = <<>>

VisitIdle == visitNode = [kind |-> "none"] /\ visitRes = [op |-> "none"]

EditIdle == InsIdle /\ FileIdle /\ SectIdle /\ AliasIdle /\ VisitIdle

(***************************************************************************)
(* Specifications                                                          *)
(***************************************************************************)
InitGuid ==
    /\ GuidInit /\ Attributes = Unset /\ FVIdle /\ BiosIdle /\ MEIdle /\ ImgIdle /\ EditIdle

InitFV ==
    /\ GuidIdle /\ Attributes = Unset /\ FVIdle /\ BiosIdle /\ MEIdle /\ ImgIdle /\ EditIdle

InitBios ==
    /\ GuidIdle /\ FVIdle /\ BiosInit /\ MEIdle /\ ImgIdle /\ EditIdle

InitME ==
    /\ GuidIdle /\ Attributes = Unset /\ FVIdle /\ BiosIdle /\ MEInit /\ ImgIdle /\ EditIdle

InitImg ==
    /\ GuidIdle /\ FVIdle /\ BiosIdle /\ MEIdle /\ ImgInit /\ EditIdle

SpecGuid == InitGuid /\ [][GuidNext]_vars

SpecFV == InitFV /\ [][FVNext]_vars

SpecBios == InitBios /\ [][BiosNext]_vars

SpecME == InitME /\ [][MENext]_vars

SpecImg == InitImg /\ [][ImgNext]_vars

InitIns ==
    /\ GuidIdle /\ FVIdle /\ BiosIdle /\ MEIdle /\ ImgIdle
    /\ Attributes \in InsPolarities
    /\ InsInit /\ FileIdle /\ SectIdle /\ AliasIdle /\ VisitIdle

SpecIns == InitIns /\ [][InsNext]_vars

InitFile ==
    /\ GuidIdle /\ FVIdle /\ BiosIdle /\ MEIdle /\ ImgIdle /\ Attributes = Unset
    /\ InsIdle /\ FileInit /\ SectIdle /\ AliasIdle /\ VisitIdle

SpecFile == InitFile /\ [][FileNext]_vars

InitSect ==
    /\ GuidIdle /\ FVIdle /\ BiosIdle /\ MEIdle /\ ImgIdle /\ Attributes = Unset
    /\ InsIdle /\ FileIdle /\ SectIdle /\ AliasIdle /\ VisitIdle

SpecSect == InitSect /\ [][SectNext]_vars

InitAlias ==
    /\ GuidIdle /\ FVIdle /\ BiosIdle /\ MEIdle /\ ImgIdle /\ Attributes = Unset
    /\ InsIdle /\ FileIdle /\ SectIdle /\ AliasInit /\ VisitIdle

SpecAlias == InitAlias /\ [][AliasNext]_vars

InitVisit ==
    /\ GuidIdle /\ FVIdle /\ BiosIdle /\ MEIdle /\ ImgIdle /\ Attributes = Unset
    /\ InsIdle /\ FileIdle /\ SectIdle /\ AliasIdle /\ VisitInit

SpecVisit == InitVisit /\ [][VisitNext]_vars

InitBuild ==
    /\ GuidIdle /\ FVIdle /\ BiosIdle /\ MEIdle /\ ImgIdle
    /\ Attributes \in PadPolarities
    /\ InsIdle /\ FileIdle /\ SectIdle /\ AliasIdle /\ VisitIdle

SpecBuild == InitBuild /\ [][BuildNext]_vars

InitGuided ==
    /\ GuidIdle /\ FVIdle /\ BiosIdle /\ MEIdle /\ ImgIdle /\ Attributes = Unset
    /\ InsIdle /\ FileIdle /\ SectIdle /\ AliasIdle /\ VisitIdle

SpecGuided == InitGuided /\ [][GuidedNext]_vars

InitGen ==
    /\ GuidIdle /\ FVIdle /\ BiosIdle /\ MEIdle /\ ImgIdle /\ Attributes = Unset
    /\ InsIdle /\ FileIdle /\ SectIdle /\ AliasIdle /\ VisitIdle

SpecGen == InitGen /\ [][GenNext]_vars

InitFind ==
    /\ GuidIdle /\ FVIdle /\ BiosIdle /\ MEIdle /\ ImgIdle /\ Attributes = Unset
    /\ InsIdle /\ FileIdle /\ SectIdle /\ AliasIdle /\ FindInit

SpecFind == InitFind /\ [][FindNext]_vars

----------------------------------------------------------------------------
\* C1: Parse and String are exact inverses: for every GUID g, Parse(g.String())
\* succeeds and equals g; for every canonical text t (8-4-4-4-12 upper-case hex
\* digits), Parse(t) succeeds and Parse(t).String() equals t.
GuidRoundTrip ==
    /\ (guidMode = "guid" /\ guidStep = 2) => (~guidErr /\ guidVal = guidSrc)
    /\ (guidMode = "guid" /\ guidStep >= 1) => IsCanonical(guidText)
    /\ (guidMode = "text" /\ IsCanonical(guidSrc) /\ guidStep >= 1) => ~guidErr
    /\ (guidMode = "text" /\ IsCanonical(guidSrc) /\ guidStep = 2) => guidText = guidSrc

GuidRoundTripWitness ==
    /\ guidMode = "text" /\ guidStep = 2 /\ guidSrc = UExample /\ guidText = UExample
    /\ guidVal # hexDecode(stripHyphens(UExample))

\* C2: Parse stores the hex-decoded text with each of the groups of byte lengths
\* {4,2,2,1,1,1,1,1,1,1,1} byte-reversed: bytes 0..3, 4..5 and 6..7 are the
\* text's bytes in reverse order and bytes 8..15 keep text order; UExample is
\* stored as 67 45 23 01 AB 89 EF CD 01 23 45 67 89 AB CD EF.
StoragePerm == <<4, 3, 2, 1, 6, 5, 8, 7, 9, 10, 11, 12, 13, 14, 15, 16>>

GuidMixedEndian ==
    (guidMode = "text" /\ guidStep >= 1 /\ ~guidErr) =>
        /\ Len(guidVal) = Size
        /\ \A i \in 1..Size :
              guidVal[i] = hexDecode(stripHyphens(guidSrc))[StoragePerm[i]]
        /\ guidSrc = UExample =>
              guidVal = << 103, 69, 35, 1, 171, 137, 239, 205,
                           1, 35, 69, 103, 137, 171, 205, 239 >>

GuidMixedEndianWitness ==
    /\ guidMode = "text" /\ guidStep = 1 /\ ~guidErr /\ guidSrc = UExample
    /\ guidVal[1] = 103 /\ guidVal[4] = 1 /\ guidVal[16] = 239

\* C3: the erase polarity is set once.  A NewFirmwareVolume call that succeeds
\* while no polarity is set leaves the polarity of its attribute bit 11 (0xFF if
\* set, else 0x00); a call made once the polarity is set, on a volume whose bit
\* 11 gives the other polarity, returns an error and no volume; and a polarity
\* that is set never changes again.
Bit11Polarity(data) == IF (ByteAt(data, 45) \div 8) % 2 = 1 THEN 255 ELSE 0

ErasePolaritySetOnce ==
    [][ /\ Attributes.set => Attributes' = Attributes
        /\ (~Attributes.set /\ fvRes'.st = "ok") =>
              Attributes' = [set |-> TRUE, ErasePolarity |-> Bit11Polarity(fvData')]
        /\ (Attributes.set /\ Bit11Polarity(fvData') # Attributes.ErasePolarity) =>
              (fvRes'.st = "err" /\ fvRes'.fv = NoFV)
      ]_vars

ErasePolaritySetOnceWitness ==
    /\ fvPrev.set /\ fvPrev.ErasePolarity = 255
    /\ fvData.len = 128 /\ Bit11Polarity(fvData) = 0
    /\ fvRes.st = "err" /\ Attributes = fvPrev

\* C10: NewFirmwareVolume computes DataOffset as HeaderLen, replaced by
\* ExtHeaderOffset + ExtHeaderSize exactly when an extended header is present
\* (ExtHeaderOffset # 0) and fits (ExtHeaderOffset + 20 <= Length), and then
\* rounded up to a multiple of 8.
RoundUp8(x) == IF x % 8 = 0 THEN x ELSE x + 8 - (x % 8)

DataOffsetAsSpecified ==
    fvRes.st = "ok" =>
        LET length == U32(fvData, 32)
            headerLen == U16(fvData, 48)
            extOff == U16(fvData, 52)
            extSize == U32(fvData, extOff + 16)
        IN  fvRes.fv.DataOffset =
                RoundUp8(IF extOff # 0 /\ extOff + 20 <= length
                         THEN extOff + extSize ELSE headerLen)

\* C4, as stated: FindSignature returns 20 without error when bytes [16,20) are
\* the signature, 4 without error when bytes [0,4) are, and -1 with an error when
\* the signature is at neither place, for every buffer.
SigAt(b, o) == o + 4 <= b.len /\ BytesAt(b, o, 4) = <<90, 165, 240, 15>>

SignatureCases(res, b) ==
    /\ SigAt(b, 16) => (res.off = 20 /\ res.err = "")
    /\ (SigAt(b, 0) /\ ~SigAt(b, 16)) => (res.off = 4 /\ res.err = "")
    /\ (~SigAt(b, 0) /\ ~SigAt(b, 16)) => (res.off = 0 - 1 /\ res.err # "")

Intersect(a, b) ==
    /\ BaseOffset(a.FRegion) < EndOffset(b.FRegion)
    /\ BaseOffset(b.FRegion) < EndOffset(a.FRegion)

RegionOverlapFatal ==
    imgRes.op = "NewFlashImage" =>
        \A i, j \in 1..Len(imgRes.constructed) :
            (i # j /\ Intersect(imgRes.constructed[i], imgRes.constructed[j])) =>
                (imgRes.st = "err" /\ imgRes.f = NoImage)

RegionOverlapFatalWitness ==
    /\ imgRes.op = "NewFlashImage" /\ imgRes.st = "err"
    /\ Len(imgRes.constructed) = 2
    /\ Intersect(imgRes.constructed[1], imgRes.constructed[2])
    /\ imgRes.constructed[1].Type = 0 /\ imgRes.constructed[2].Type = 1
    /\ imgRes.constructed[1].FRegion.Base > imgRes.constructed[2].FRegion.Base

\* C7: on a 4096-byte descriptor with a signature, ParseFlashDescriptor reports
\* the out-of-bounds error exactly when the 64-byte region section at
\* RegionBase*16 reaches beyond byte 4096, and decodes a section that lies
\* inside the buffer, one that ends exactly at byte 4096 included.
RegionSectionInsideIsDecoded ==
    (/\ imgRes.op = "ParseFlashDescriptor"
     /\ imgData.len = 4096
     /\ (SigAt(imgData, 0) \/ SigAt(imgData, 16))) =>
        LET start == IF SigAt(imgData, 16) THEN 20 ELSE 4
            at == ByteAt(imgData, start + 2) * 16
        IN  /\ (imgRes.ifd.err = "bounds") <=> (at + 64 > 4096)
            /\ (at + 64 <= 4096) =>
                  /\ imgRes.ifd.err = ""
                  /\ imgRes.ifd.RegionStart = at
                  /\ \A i \in 1..15 :
                        /\ imgRes.ifd.FlashRegions[i].Base
                              = ByteAt(imgData, at + 4 * i) + 256 * ByteAt(imgData, at + 4 * i + 1)
                        /\ imgRes.ifd.FlashRegions[i].Limit
                              = ByteAt(imgData, at + 4 * i + 2) + 256 * ByteAt(imgData, at + 4 * i + 3)

\* C8: for an ME region whose partition table parses, FreeSpaceOffset is the
\* maximum of Offset + Length, taken as unbounded integers, over the entries
\* whose Offset is neither 0 nor 0xFFFFFFFF, and 0 when there is no such entry.
\* A value is compared as the pair <<value div 2^24, value mod 2^24>>.
PairOf32(b) == <<b[4], b[1] + 256 * b[2] + 65536 * b[3]>>
PairOf64(w) == <<w[4] + 256 * w[5] + 65536 * w[6], w[1] + 256 * w[2] + 65536 * w[3]>>
PairSum(a, b) == <<a[1] + b[1] + ((a[2] + b[2]) \div 16777216), (a[2] + b[2]) % 16777216>>
PairLeq(a, b) == a[1] < b[1] \/ (a[1] = b[1] /\ a[2] <= b[2])

FreeSpaceIsMaxEnd ==
    (meRes.op = "NewMERegion" /\ meRes.FPT.ok) =>
        LET es == meRes.FPT.Entries
            valid == {i \in 1..Len(es) :
                        PairOf32(es[i].Offset) \notin {<<0, 0>>, <<255, 16777215>>}}
            ends == {PairSum(PairOf32(es[i].Offset), PairOf32(es[i].Length)) : i \in valid}
            free == PairOf64(meRes.FreeSpaceOffset)
        IN  /\ meRes.FreeSpaceOffset[7] = 0 /\ meRes.FreeSpaceOffset[8] = 0
            /\ IF valid = {} THEN free = <<0, 0>>
               ELSE free \in ends /\ \A e \in ends : PairLeq(e, free)

FreeSpaceIsMaxEndWitness ==
    /\ meRes.op = "NewMERegion" /\ meRes.FPT.ok
    /\ Len(meRes.FPT.Entries) = 2
    /\ meRes.FPT.Entries[1].Offset = <<255, 255, 255, 255>>
    /\ meRes.FPT.Entries[1].Length = <<255, 255, 255, 255>>
    /\ meRes.FPT.Entries[2].Offset = <<254, 255, 255, 255>>
    /\ meRes.FPT.Entries[2].Length = <<255, 255, 255, 255>>
    /\ meRes.FreeSpaceOffset = <<253, 255, 255, 255, 1, 0, 0, 0>>

\* C9: FindFirmwareVolumeOffset returns -1 exactly when no "_FVH" lies at an
\* offset s >= 32 that is a multiple of 8; otherwise it returns s - 40 for the
\* lowest such s, and that is a non-negative offset inside the data.
SignatureOffsets(b) ==
    {s \in 0..(b.len - 4) : s >= 32 /\ s % 8 = 0 /\ BytesAt(b, s, 4) = <<95, 70, 86, 72>>}

VolumeOffsetNonNegative ==
    biosRes.op = "FindFirmwareVolumeOffset" =>
        LET S == SignatureOffsets(biosData)
        IN  /\ (biosRes.off = 0 - 1) <=> (S = {})
            /\ S # {} => /\ biosRes.off = MinOf(S) - 40
                         /\ biosRes.off >= 0
                         /\ biosRes.off < biosData.len

\* C11: every FirmwareVolume that NewFirmwareVolume returns has Length no
\* greater than the length of the data it was parsed from, and a DataOffset that
\* is a multiple of 8 with HeaderLen <= DataOffset < Length.
VolumeDataOffsetInside ==
    fvRes.st = "ok" =>
        /\ fvRes.fv.Length <= fvData.len
        /\ fvRes.fv.DataOffset % 8 = 0
        /\ fvRes.fv.HeaderLen <= fvRes.fv.DataOffset
        /\ fvRes.fv.DataOffset < fvRes.fv.Length

\* C12: in the file stream of an FFS2/FFS3 volume a file header whose Size is
\* FF FF FF and whose ExtendedSize is all ones is free space and no error: the
\* volume is returned with FreeSpace = Length - offset, offset being the
\* 8-aligned position of that header, with the files parsed before it and none
\* after it.
FreeHeaderAt(data, o) ==
    /\ o + 32 <= data.len
    /\ \A k \in 20..22 : ByteAt(data, o + k) = 255
    /\ \A k \in 24..31 : ByteAt(data, o + k) = 255

\* a file header of type Raw (1) whose 3-byte size is the 24 of the header
RawFile24At(data, o) ==
    /\ o + 24 <= data.len
    /\ ByteAt(data, o + 18) = 1
    /\ ByteAt(data, o + 20) = 24 /\ ByteAt(data, o + 21) = 0 /\ ByteAt(data, o + 22) = 0

\* the volume header is accepted and the stream is parsed
StreamIsParsed(data, prev) ==
    /\ data.len = 128
    /\ BytesAt(data, 16, 16) \in {FFS2, FFS3}
    /\ U32(data, 32) <= data.len
    /\ ~(prev.set /\ prev.ErasePolarity # Bit11Polarity(data))

StreamStart(data) ==
    DataOffsetOf(U32(data, 32), U16(data, 48), U16(data, 52),
                 U32(data, U16(data, 52) + 16))

InStream(data, o) == U32(data, 32) >= 24 /\ o < U32(data, 32) - 24

FreeSpaceEndsStream ==
    (fvRes.st # "none" /\ StreamIsParsed(fvData, fvPrev)) =>
        LET start == StreamStart(fvData)
            length == U32(fvData, 32)
        IN  /\ (InStream(fvData, start) /\ FreeHeaderAt(fvData, start)) =>
                  /\ fvRes.st = "ok"
                  /\ fvRes.fv.Files = <<>>
                  /\ fvRes.fv.FreeSpace = length - start
            /\ (/\ InStream(fvData, start) /\ RawFile24At(fvData, start)
                /\ InStream(fvData, start + 24) /\ FreeHeaderAt(fvData, start + 24)) =>
                  /\ fvRes.st = "ok"
                  /\ Len(fvRes.fv.Files) = 1
                  /\ fvRes.fv.Files[1].offset = start
                  /\ fvRes.fv.FreeSpace = length - (start + 24)
            /\ fvRes.st = "ok" =>
                  \A i \in 1..Len(fvRes.fv.Files) :
                      ~FreeHeaderAt(fvData, fvRes.fv.Files[i].offset)

FreeSpaceEndsStreamWitness ==
    /\ fvRes.st = "ok" /\ StreamIsParsed(fvData, fvPrev)
    /\ Len(fvRes.fv.Files) = 1
    /\ FreeHeaderAt(fvData, fvRes.fv.Files[1].offset + 24)
    /\ fvRes.fv.FreeSpace = fvRes.fv.Length - (fvRes.fv.Files[1].offset + 24)
    /\ fvRes.fv.FreeSpace > 0

\* C13: InsertFile(alignedOffset, bytes) succeeds exactly when alignedOffset
\* is at least the length of the buffer and bytes is not empty; on success the
\* new buffer is the old one, then alignedOffset - oldLen copies of the erase
\* polarity byte, then bytes: the file starts at alignedOffset and the buffer is
\* alignedOffset + len(bytes) long.
InsertFileAppends ==
    insRes.op = "InsertFile" =>
        LET old == insRes.old
            off == insRes.alignedOffset
            bytes == insRes.fBuf
        IN  /\ ~insRes.err <=> (off >= Len(old) /\ bytes # <<>>)
            /\ ~insRes.err =>
                  /\ Len(insBuf) = off + Len(bytes)
                  /\ SubSeq(insBuf, 1, Len(old)) = old
                  /\ \A i \in (Len(old) + 1)..off : insBuf[i] = Attributes.ErasePolarity
                  /\ SubSeq(insBuf, off + 1, off + Len(bytes)) = bytes

InsertFileAppendsWitness ==
    /\ insRes.op = "InsertFile" /\ ~insRes.err
    /\ insRes.old = <<90, 165>> /\ insRes.alignedOffset = 4 /\ insRes.fBuf = <<1, 2>>
    /\ Attributes.ErasePolarity = 255
    /\ insBuf = <<90, 165, 255, 255, 1, 2>>

\* C14: of every File that NewFile returns or SetSize has updated,
\* ExtendedSize > 0xFFFFFF implies that the large-file attribute bit (bit 0) is
\* set, and ExtendedSize is at least the length of the file's header.
FileSizeAndLargeBit ==
    (fileRes.op = "SetSize" \/ (fileRes.op = "NewFile" /\ fileRes.st = "ok")) =>
        /\ fileObj.Header.ExtendedSize > 16777215 =>
              fileObj.Header.Attributes % 2 = 1
        /\ fileObj.Header.ExtendedSize >=
              (IF fileObj.Header.Attributes % 2 = 1 THEN 32 ELSE 24)

\* C15: after ChecksumAndAssemble, whatever the header checksum field held
\* before, the 8-bit wrapping sum of the written file header (24 bytes, 32 when
\* the file is large) without the file checksum and the state byte is 0, which
\* is ChecksumHeader() of the assembled file; and the body checksum byte is 0xAA
\* when attribute bit 6 is clear, else the two's complement of checksum8(body).
SumOfBytes(b, lo, hi, skip) ==
    LET RECURSIVE Sum(_)
        Sum(o) == IF o > hi THEN 0
                  ELSE (IF o \in skip THEN 0 ELSE ByteAt(b, o)) + Sum(o + 1)
    IN  Sum(lo) % 256

BodySum(s) ==
    LET RECURSIVE Sum(_)
        Sum(i) == IF i > Len(s) THEN 0 ELSE s[i] + Sum(i + 1)
    IN  Sum(1) % 256

AssembledHeaderSumsToZero ==
    fileRes.op = "ChecksumAndAssemble" =>
        LET large == fileObj.Header.Attributes % 2 = 1
            n == IF large THEN 32 ELSE 24
        IN  /\ fileObj.buf.len = n + Len(fileRes.fileData)
            /\ SumOfBytes(fileObj.buf, 0, n - 1, {17, 23}) = 0
            /\ ChecksumHeader(fileObj.Header, fileObj.buf) = 0
            /\ ByteAt(fileObj.buf, 17) = fileObj.Header.ChecksumFile
            /\ BytesAt(fileObj.buf, n, Len(fileRes.fileData)) = fileRes.fileData
            /\ (fileObj.Header.Attributes \div 64) % 2 = 0 =>
                  ByteAt(fileObj.buf, 17) = 170
            /\ (fileObj.Header.Attributes \div 64) % 2 = 1 =>
                  (ByteAt(fileObj.buf, 17) + BodySum(fileRes.fileData)) % 256 = 0

AssembledHeaderSumsToZeroWitness ==
    /\ fileRes.op = "ChecksumAndAssemble"
    /\ fileRes.old.ChecksumHeader = 90
    /\ fileObj.Header.ChecksumHeader # 90
    /\ (fileObj.Header.Attributes \div 64) % 2 = 1
    /\ fileRes.fileData = <<255, 2, 7>>
    /\ ByteAt(fileObj.buf, 17) = 248

\* C20: SetSize(n, resize) sets the large attribute bit exactly when
\* n > 0xFFFFFF and clears it otherwise; ExtendedSize becomes n + 8 when
\* n > 0xFFFFFF and resize is true, and n in every other case; the 3-byte Size
\* field is the value of ExtendedSize when that is <= 0xFFFFFF and FF FF FF when
\* it is larger; no other header field changes.
ThreeBytes(n) == <<n % 256, (n \div 256) % 256, (n \div 65536) % 256>>

SetSizeFields ==
    fileRes.op = "SetSize" =>
        LET old == fileRes.old
            new == fileObj.Header
            n == fileRes.size
        IN  /\ (new.Attributes % 2 = 1) <=> (n > 16777215)
            /\ new.Attributes \div 2 = old.Attributes \div 2
            /\ new.ExtendedSize = IF n > 16777215 /\ fileRes.resizeFile THEN n + 8 ELSE n
            /\ new.Size = IF new.ExtendedSize <= 16777215
                          THEN ThreeBytes(new.ExtendedSize) ELSE <<255, 255, 255>>
            /\ new.GUID = old.GUID /\ new.Type = old.Type /\ new.State = old.State
            /\ new.ChecksumHeader = old.ChecksumHeader
            /\ new.ChecksumFile = old.ChecksumFile

SetSizeFieldsWitness ==
    /\ fileRes.op = "SetSize" /\ fileRes.size = 16777216 /\ fileRes.resizeFile
    /\ fileRes.old.Attributes = 64
    /\ fileObj.Header.Attributes = 65
    /\ fileObj.Header.ExtendedSize = 16777224
    /\ fileObj.Header.Size = <<255, 255, 255>>

\* C16: for a recognized section type ExtendedSize is read3(Size), unless Size
\* is FF FF FF: then it is the u32 that follows, and 0xFFFFFFFF there is an error.
\* A recognized-type section whose ExtendedSize exceeds the buffer makes
\* NewSection fail; the ExtendedSize of an unknown-type section is clamped to the
\* length of the buffer.  Every returned Section has len(buf) = ExtendedSize, no
\* greater than the length of the input.
RecognizedTypes == {0, 1, 2, 3, 16, 17, 18, 19, 20, 21, 22, 23, 24, 25, 27, 28}

Size3Of(b) == ByteAt(b, 0) + 256 * ByteAt(b, 1) + 65536 * ByteAt(b, 2)

\* the u32 at offset 4 is greater than n (n below 2^31)
Ext32Exceeds(b, n) ==
    ByteAt(b, 7) >= 128
      \/ ByteAt(b, 4) + 256 * ByteAt(b, 5) + 65536 * ByteAt(b, 6)
           + 16777216 * ByteAt(b, 7) > n

Ext32Of(b) ==
    ByteAt(b, 4) + 256 * ByteAt(b, 5) + 65536 * ByteAt(b, 6) + 16777216 * ByteAt(b, 7)

SectionSizeDecoding ==
    (sectRes.op = "NewSection" /\ sectData.len >= 4) =>
        LET b == sectData
            known == ByteAt(b, 3) \in RecognizedTypes
            ff == Size3Of(b) = 16777215
        IN  /\ (known /\ ~ff) =>
                  /\ Size3Of(b) > b.len => sectRes.st = "err"
                  /\ sectRes.st = "ok" => sectRes.ExtendedSize = Size3Of(b)
                  /\ (ByteAt(b, 3) = 25 /\ Size3Of(b) <= b.len) => sectRes.st = "ok"
            /\ (known /\ ff /\ b.len >= 8) =>
                  /\ (\A k \in 4..7 : ByteAt(b, k) = 255) => sectRes.st = "err"
                  /\ Ext32Exceeds(b, b.len) => sectRes.st = "err"
                  /\ sectRes.st = "ok" => sectRes.ExtendedSize = Ext32Of(b)
                  /\ (ByteAt(b, 3) = 25 /\ ~Ext32Exceeds(b, b.len)) => sectRes.st = "ok"
            /\ ~known =>
                  /\ sectRes.st = "ok"
                  /\ sectRes.ExtendedSize =
                        IF Size3Of(b) > b.len THEN b.len ELSE Size3Of(b)
            /\ sectRes.st = "ok" =>
                  /\ sectRes.buf.len = sectRes.ExtendedSize
                  /\ sectRes.ExtendedSize <= b.len

SectionSizeDecodingWitness ==
    /\ sectRes.op = "NewSection" /\ sectData.len = 16
    /\ \/ /\ ByteAt(sectData, 3) = 25 /\ Size3Of(sectData) = 17 /\ sectRes.st = "err"
       \/ /\ ByteAt(sectData, 3) = 64 /\ Size3Of(sectData) = 17 /\ sectRes.st = "ok"
          /\ sectRes.ExtendedSize = 16
       \/ /\ ByteAt(sectData, 3) = 25 /\ Size3Of(sectData) = 16777215
          /\ sectRes.st = "ok" /\ sectRes.ExtendedSize = 16

\* C17: a DepEx section (types 0x13, 0x1b, 0x1c) whose opcode stream has no END
\* opcode (0x08) is a fatal parse error: NewSection returns an error and no
\* Section; when NewSection succeeds on a DepEx section its DepEx list is not
\* empty, its last operation is END and no earlier one is.
DepExWithoutEndIsFatal ==
    (sectRes.op = "NewSection" /\ ByteAt(sectData, 3) \in {19, 27, 28}) =>
        /\ (\A o \in 4..(sectData.len - 1) : ByteAt(sectData, o) # 8) =>
              sectRes.st = "err"
        /\ sectRes.st = "ok" =>
              /\ sectRes.DepEx # <<>>
              /\ sectRes.DepEx[Len(sectRes.DepEx)].OpCode = "END"
              /\ \A i \in 1..(Len(sectRes.DepEx) - 1) : sectRes.DepEx[i].OpCode # "END"

\* C18: with the read-only flag cleared every node that a parse creates owns
\* an independent copy of its bytes: a write to the caller's input slice, or to
\* another node's buffer, after the parse changes no node's Buf(), for every
\* kind of node, BIOSPadding and gap-fill RawRegions included; with the flag
\* set, the buffers of FV, File, Section and BIOSRegion nodes are sub-slices of
\* the input.
Writes(n, arr) == n.arr = arr /\ n.kind = "FlashImage"

NodesOwnTheirBytes ==
    [][ /\ (~ReadOnly /\ nodes # <<>> /\ nodes' = nodes) =>
              \A k \in 1..Len(nodes) :
                  \/ NodeBuf(heap', nodes[k]) = NodeBuf(heap, nodes[k])
                  \/ (heap'.image # heap.image /\ Writes(nodes[k], "image"))
        /\ ReadOnly' =>
              \A k \in 1..Len(nodes') :
                  nodes'[k].kind \in {"FirmwareVolume", "File", "Section", "BIOSRegion"} =>
                      nodes'[k].arr = "input"
      ]_vars

\* C19: ApplyChildren applies the visitor to each direct child of the node
\* exactly once and in declaration order (FlashImage: the descriptor, then
\* Regions; BIOSRegion: Elements; FirmwareVolume: Files; File: Sections, or the
\* NVarStore of a file that holds one; Section: Encapsulated); it stops at the
\* first child for which the visitor returns an error and returns that error,
\* so no later child is visited; without an error it returns nil.
DeclaredChildren(n) ==
    CASE n.kind = "FlashImage" -> <<n.IFD>> \o n.Regions
      [] n.kind = "BIOSRegion" -> n.Elements
      [] n.kind = "FirmwareVolume" -> n.Files
      [] n.kind = "File" -> IF n.NVarStore # NoError THEN <<n.NVarStore>> ELSE n.Sections
      [] n.kind = "Section" -> n.Encapsulated
      [] n.kind = "MERegion" -> IF n.FPT # NoError THEN <<n.FPT>> ELSE <<>>
      [] OTHER -> <<>>

FirstError(cs, fails) ==
    LET bad == {i \in 1..Len(cs) : cs[i] \in fails}
    IN IF bad = {} THEN 0 ELSE CHOOSE i \in bad : \A j \in bad : i <= j

ApplyChildrenInOrder ==
    visitRes.op = "ApplyChildren" =>
        LET cs == DeclaredChildren(visitNode)
            k == FirstError(cs, visitRes.fails)
        IN IF k = 0
           THEN visitRes.visited = cs /\ visitRes.err = NoError
           ELSE visitRes.visited = SubSeq(cs, 1, k) /\ visitRes.err = cs[k]

\* a FlashImage whose visitor accepts the descriptor and fails on the first of
\* several regions: the descriptor and that region were visited, the rest not
ApplyChildrenInOrderWitness ==
    /\ visitRes.op = "ApplyChildren"
    /\ visitNode.kind = "FlashImage"
    /\ Len(visitNode.Regions) = 3
    /\ visitNode.Regions[1] > visitNode.Regions[2]
    /\ visitRes.fails = {visitNode.Regions[1], visitNode.Regions[3]}
    /\ visitRes.visited = <<0, visitNode.Regions[1]>>
    /\ visitRes.err = visitNode.Regions[1]

\* C21: CreatePadFile(size) fails for size < 24 and for an erase polarity that
\* is neither 0x00 nor 0xFF; otherwise it returns a file of type 0xF0 whose
\* buffer is exactly size bytes, a header followed by a body of erase-polarity
\* bytes, whose GUID is all ones for polarity 0xFF and all zeros for 0x00 and
\* whose State is FileStateValid XOR the polarity.
PadFileAsRequested ==
    fileRes.op = "CreatePadFile" =>
        LET ep == Attributes.ErasePolarity IN
        IF fileRes.size < 24 \/ ep \notin {0, 255} THEN fileRes.st = "err"
        ELSE /\ fileRes.st = "ok"
             /\ fileRes.Header.Type = 240
             /\ Len(fileRes.head) + fileRes.data.len = fileRes.size
             /\ Len(fileRes.head) \in {24, 32}
             /\ fileRes.data.fill = ep /\ DOMAIN fileRes.data.m = {}
             /\ fileRes.head[19] = 240
             /\ \A i \in 1..16 : fileRes.head[i] = ep /\ fileRes.Header.GUID[i] = ep
             /\ fileRes.Header.State = (IF ep = 255 THEN 248 ELSE 7)
             /\ fileRes.head[24] = fileRes.Header.State

\* a pad file of more than 0xFFFFFF bytes for polarity 0xFF: a 32-byte header
\* and the rest filled with 0xFF
PadFileAsRequestedWitness ==
    /\ fileRes.op = "CreatePadFile" /\ fileRes.st = "ok"
    /\ Attributes.ErasePolarity = 255
    /\ fileRes.size = MaxSize3 + 33
    /\ Len(fileRes.head) = 32 /\ fileRes.data.len = MaxSize3 + 1
    /\ fileRes.Header.State = 248

\* C28: a file built with SetSize(n, false) and ChecksumAndAssemble around a
\* body of n minus header-length bytes, n >= 24, is read back by NewFile with
\* ExtendedSize = n, with its data at HeaderLen() (24, or 32 when large) and
\* with the same body; the parser takes the extended header (Size FF FF FF)
\* exactly when the writer set the large attribute bit.
WriteReadRoundTrip ==
    fileRes.op = "WriteRead" =>
        /\ fileRes.st = "ok"
        /\ fileRes.ExtendedSize = fileRes.n
        /\ fileRes.HeaderLen = (IF IsLarge(fileRes.written.Attributes) THEN 32 ELSE 24)
        /\ fileRes.DataOffset = fileRes.HeaderLen
        /\ fileRes.read = fileRes.body
        /\ (fileRes.written.Size = <<255, 255, 255>>) <=> IsLarge(fileRes.written.Attributes)

\* the round trip for every size but 0xFFFFFF
WriteReadRoundTripButMax ==
    (fileRes.op = "WriteRead" /\ fileRes.n # MaxSize3) =>
        /\ fileRes.st = "ok"
        /\ fileRes.ExtendedSize = fileRes.n
        /\ fileRes.DataOffset = fileRes.HeaderLen
        /\ fileRes.read = fileRes.body
        /\ (fileRes.written.Size = <<255, 255, 255>>) <=> IsLarge(fileRes.written.Attributes)

\* a large file read back as written
WriteReadLargeWitness ==
    /\ fileRes.op = "WriteRead" /\ fileRes.n = MaxSize3 + 33 /\ fileRes.st = "ok"
    /\ fileRes.DataOffset = 32 /\ fileRes.body.m # NoBytes /\ fileRes.read = fileRes.body

\* C22: for a GUID-defined section whose processing-required bit is set: with
\* a codec for the GUID and a successful decoding, Compression is the codec's
\* name and the decoded bytes are parsed into the Encapsulated children; when
\* the codec fails or there is no codec for the GUID, NewSection still
\* succeeds, Compression is "UNKNOWN" and Encapsulated is empty; when the bit
\* is clear or decompression is disabled, no codec is called and Encapsulated
\* is empty.
GuidedHs == IF AllFF(sectData, 0, 3) THEN 8 ELSE 4

GuidedSize == IF GuidedHs = 8 THEN U32(sectData, 4) ELSE Read3Size(BytesAt(sectData, 0, 3))

\* the section header and the GUID-defined header can be read
GuidedReadable ==
    /\ sectRes.op = "NewSection" /\ ByteAt(sectData, 3) = 2
    /\ sectData.len >= GuidedHs + 20
    /\ GuidedSize <= sectData.len

GuidedBit == ByteAt(sectData, GuidedHs + 18) % 2 = 1

GuidedHasCodec == BytesAt(sectData, GuidedHs, 16) = LZMAGUID

GuidedOffsetInside == U16(sectData, GuidedHs + 16) <= sectData.len

RECURSIVE countSections(_, _)
countSections(out, off) ==
    IF off >= out.len THEN 0
    ELSE 1 + countSections(out, Align4(off + Read3Size(BytesAt(out, off, 3))))

GuidedCodecOutcome ==
    GuidedReadable =>
        IF GuidedBit /\ ~sectRes.cx.disabled
        THEN IF GuidedHasCodec
             THEN GuidedOffsetInside =>
                    IF sectRes.cx.ok
                    THEN sectRes.st = "ok" =>
                            /\ sectRes.Compression = "LZMA"
                            /\ sectRes.Encapsulated = countSections(sectRes.cx.out, 0)
                    ELSE /\ sectRes.st = "ok" /\ sectRes.Compression = "UNKNOWN"
                         /\ sectRes.Encapsulated = 0
             ELSE /\ sectRes.st = "ok" /\ sectRes.Compression = "UNKNOWN"
                  /\ sectRes.Encapsulated = 0
        ELSE /\ sectRes.st = "ok" /\ sectRes.Compression = ""
             /\ sectRes.Encapsulated = 0

\* a decoded stream of two sections became two children
GuidedCodecOutcomeWitness ==
    /\ GuidedReadable /\ GuidedBit /\ GuidedHasCodec /\ sectRes.cx.ok
    /\ sectRes.st = "ok" /\ sectRes.Compression = "LZMA" /\ sectRes.Encapsulated = 2

\* the codec failed and the section was kept
GuidedCodecFailedWitness ==
    /\ GuidedReadable /\ GuidedBit /\ GuidedHasCodec /\ ~sectRes.cx.ok
    /\ ~sectRes.cx.disabled /\ sectRes.st = "ok" /\ sectRes.Compression = "UNKNOWN"

\* C24: parsing the sections decoded from a GUID-defined section always
\* terminates: every round of the loop advances the offset, and a decoded
\* section whose ExtendedSize is 0 ends the parse with an error.
EncapsulatedParseTerminates ==
    sectRes.op = "NewSection" => sectRes.st # "hang"

\* a decoded section of ExtendedSize 0 is an error
EncapsulatedZeroSizeIsError ==
    (/\ GuidedReadable /\ GuidedBit /\ GuidedHasCodec /\ GuidedOffsetInside
     /\ sectRes.cx.ok /\ ~sectRes.cx.disabled
     /\ sectRes.cx.out.len >= 4 /\ Read3Size(BytesAt(sectRes.cx.out, 0, 3)) = 0)
        => sectRes.st = "err"

\* C29: when NewSection decodes a GUID-defined section every byte access stays
\* inside the section: the type-specific header lies within the ExtendedSize
\* bytes of the section, DataOffset lies in [header length, ExtendedSize], the
\* codec is given exactly the bytes [DataOffset, ExtendedSize), and a
\* DataOffset beyond the available bytes is an error, not a slice out of range.
GuidedCodecCalled ==
    /\ GuidedReadable /\ GuidedBit /\ GuidedHasCodec /\ ~sectRes.cx.disabled
    /\ GuidedOffsetInside

GuidedAccessInside ==
    /\ sectRes.op = "NewSection" => sectRes.st # "panic"
    /\ (GuidedReadable /\ sectRes.st = "ok") => GuidedHs + 20 <= sectRes.ExtendedSize
    /\ GuidedCodecCalled =>
          /\ sectRes.TypeSpecific.DataOffset >= GuidedHs + 20
          /\ sectRes.TypeSpecific.DataOffset <= GuidedSize
          /\ sectRes.codecIn = [from |-> sectRes.TypeSpecific.DataOffset, to |-> GuidedSize]

\* C23: for a section with body b and a type-specific header of h bytes (0, or
\* 20 for GUID-defined) GenSecHeader sets ExtendedSize = len(b) + 4 + h, plus 4
\* with an extended header when that sum is >= 0xFFFFFF, writes Size =
\* write3(ExtendedSize), sets the DataOffset of a GUID-defined section to the
\* full header length and leaves len(buf) = ExtendedSize; NewSection on the
\* resulting buffer yields the same type, the same ExtendedSize and a body
\* identical to b.
GenTsLen == IF sectRes.Type = 2 THEN 20 ELSE 0

GenSum == sectRes.body.len + 4 + GenTsLen

GenHeaderWritten ==
    sectRes.op = "GenSecHeader" =>
        /\ sectRes.Header.ExtendedSize = (IF GenSum >= 16777215 THEN GenSum + 4 ELSE GenSum)
        /\ sectRes.Header.Size = (IF sectRes.Header.ExtendedSize > 16777215
                                  THEN <<255, 255, 255>>
                                  ELSE LE(sectRes.Header.ExtendedSize, 3))
        /\ sectRes.Type = 2 =>
              sectRes.TypeSpecific.DataOffset = sectRes.Header.ExtendedSize - sectRes.body.len
        /\ sectData.len = sectRes.Header.ExtendedSize

GenHeaderReadBack ==
    sectRes.op = "GenSecHeader" =>
        /\ sectRes.st = "ok"
        /\ sectRes.readType = sectRes.Type
        /\ sectRes.readExtendedSize = sectRes.Header.ExtendedSize
        /\ sectRes.readBody = sectRes.body

GenSecHeaderRoundTrip == GenHeaderWritten /\ GenHeaderReadBack

\* the round trip for the section types that NewSection recognizes
GenSecHeaderRoundTripRecognized ==
    GenHeaderWritten /\ (sectRes.op = "GenSecHeader" /\ sectRes.Type \in {2, 16, 25}
                            => GenHeaderReadBack)

\* a GUID-defined section that needs the extended header, read back as written
GenSecHeaderRoundTripWitness ==
    /\ sectRes.op = "GenSecHeader" /\ sectRes.Type = 2 /\ sectRes.st = "ok"
    /\ sectRes.body.len = 16777215 - 24 /\ sectRes.body.m # NoBytes
    /\ sectRes.Header.ExtendedSize = 16777215 + 4
    /\ sectRes.TypeSpecific.DataOffset = 28
    /\ sectRes.readBody = sectRes.body

\* C25: every file in the Files list of a parsed firmware volume lies inside
\* the volume: it starts at an 8-byte-aligned offset >= DataOffset and ends at
\* offset + ExtendedSize <= Length, also when the backing slice is longer than
\* Length or Length is smaller than a file header; the files do not overlap
\* and are in increasing offset order.
FilesAlignedAndOrdered ==
    fvRes.st = "ok" =>
        LET fs == fvRes.fv.Files IN
        /\ \A i \in 1..Len(fs) : fs[i].offset % 8 = 0 /\ fs[i].offset >= fvRes.fv.DataOffset
        /\ \A i \in 1..(Len(fs) - 1) : fs[i].offset + fs[i].ExtendedSize <= fs[i + 1].offset

FilesInsideVolume ==
    /\ FilesAlignedAndOrdered
    /\ fvRes.st = "ok" =>
          \A i \in 1..Len(fvRes.fv.Files) :
              fvRes.fv.Files[i].offset + fvRes.fv.Files[i].ExtendedSize <= fvRes.fv.Length

\* C26: NewBIOSRegion terminates on every input, and on success its Elements
\* tile the region: the buffers of the elements, concatenated in order, are the
\* input bytes, and the recorded offset of each element (BIOSPadding.Offset,
\* FirmwareVolume.FVOffset) is the sum of the lengths of the elements before it.
RECURSIVE lengthBefore(_, _)
lengthBefore(es, i) == IF i <= 1 THEN 0 ELSE lengthBefore(es, i - 1) + es[i - 1].buf.len

BiosElementsTile ==
    (biosRes.op = "NewBIOSRegion" /\ biosRes.st = "ok") =>
        LET es == biosRes.Elements IN
        /\ lengthBefore(es, Len(es) + 1) = biosData.len
        /\ \A i \in 1..Len(es) :
              /\ es[i].Offset = lengthBefore(es, i)
              /\ es[i].buf = SubBuf(biosData, es[i].Offset, es[i].Offset + es[i].buf.len)

BiosRegionTilesAndTerminates ==
    /\ biosRes.op = "NewBIOSRegion" => biosRes.st \in {"ok", "err"}
    /\ BiosElementsTile

\* C27: InsertFile is all-or-nothing: whenever it returns an error (aligned
\* offset before the end of the buffer, or empty file bytes) the buffer of the
\* volume is byte for byte the buffer it had before the call.
InsertFileAllOrNothing ==
    (insRes.op = "InsertFile" /\ insRes.err) => insBuf = insRes.old

\* the part that holds: an aligned offset before the end of the buffer leaves
\* the buffer as it was
InsertFileMiddleKeepsBuffer ==
    (insRes.op = "InsertFile" /\ Len(insRes.old) > insRes.alignedOffset) =>
        (insRes.err /\ insBuf = insRes.old)

\* C30: in one Find.Run over a tree each File node appears at most once in
\* Matches; it is added when the predicate holds for the file itself, or else
\* when it holds for at least one Section below it that is not inside a nested
\* File, several matching sections adding it once; and the entry of a file
\* precedes the entries of the files nested inside it.
RECURSIVE findEnclosingFile(_, _)
findEnclosingFile(t, f) ==
    IF f = 1 THEN NoCurrentFile
    ELSE IF t.kind[t.parent[f]] = "File" THEN t.parent[f]
    ELSE findEnclosingFile(t, t.parent[f])

RECURSIVE findNestedIn(_, _, _)
findNestedIn(t, g, f) ==
    LET e == findEnclosingFile(t, g) IN
    e # NoCurrentFile /\ (e = f \/ findNestedIn(t, e, f))

FindFiles == { f \in 1..visitNode.tree.n : visitNode.tree.kind[f] = "File" }

FindOwnSections(f) ==
    { s \in 1..visitNode.tree.n :
        /\ visitNode.tree.kind[s] = "Section"
        /\ findEnclosingFile(visitNode.tree, s) = f }

FindPositions(f) == { i \in 1..Len(visitRes.Matches) : visitRes.Matches[i] = f }

FindFileMatchedOnce ==
    visitRes.op = "Run" =>
        \A f \in FindFiles :
            /\ Cardinality(FindPositions(f)) <= 1
            /\ FindPositions(f) # {} <=>
                   \/ f \in visitNode.pred
                   \/ FindOwnSections(f) \cap visitNode.pred # {}

FindOuterFileFirst ==
    visitRes.op = "Run" =>
        \A f \in FindFiles, g \in FindFiles :
            findNestedIn(visitNode.tree, g, f) =>
                \A i \in FindPositions(f), j \in FindPositions(g) : i < j

FindMatchesFiles == FindFileMatchedOnce /\ FindOuterFileFirst

\* a file matched through two of its sections, entered once
FindFileMatchedOnceWitness ==
    /\ visitRes.op = "Run"
    /\ \E f \in FindFiles :
          /\ f \notin visitNode.pred
          /\ Cardinality(FindOwnSections(f) \cap visitNode.pred) >= 2
          /\ Cardinality(FindPositions(f)) = 1

============================================================================
